---- MODULE Spec2Model ----
(***************************************************************************)
(* A model of the event scraper (X-eyn/event-scraper): the date pipeline   *)
(* of the Wuthering Waves scraper, the reward extractors, the event-list   *)
(* extractors, the JSON persistence and the chat bot's scrape invocation.  *)
(*                                                                         *)
(* Text is modelled character by character: a Python str is a sequence of  *)
(* one-character strings, so that parsing and formatting are computed the  *)
(* way the code computes them.                                             *)
(***************************************************************************)
EXTENDS Integers, Sequences, FiniteSets, TLC

(***************************************************************************)
(* Bounds of the model.                                                    *)
(***************************************************************************)
\* days of the month that input dates range over: 9 .. 9 + NumDays - 1
NumDays == 2
\* hours of the day that input times range over: 3 .. 3 + NumHours - 1
NumHours == 2
\* the longest list of reward strings given to format_rewards
MaxRewards == 3
\* the longest sequence of reward cards on a detail page (before the
\* filler cards that make a page long enough for the summary-card rule)
MaxCards == 3

(***************************************************************************)
(* Python values and str helpers.                                          *)
(***************************************************************************)
\* Python's None; never equal to a str built from characters
None == <<"None">>

\* a dictionary key that is absent (dict.get then yields its default)
Missing == <<"Missing">>

DigitChars == <<"0", "1", "2", "3", "4", "5", "6", "7", "8", "9">>

IsDigit(c) == \E k \in 1..10 : DigitChars[k] = c

DigitVal(c) == (CHOOSE k \in 1..10 : DigitChars[k] = c) - 1

IsAlpha(c) == c \in {"a", "b", "c", "d", "e", "f", "g", "h", "i", "j", "k", "l", "m",
                     "n", "o", "p", "q", "r", "s", "t", "u", "v", "w", "x", "y", "z",
                     "A", "B", "C", "D", "E", "F", "G", "H", "I", "J", "K", "L", "M",
                     "N", "O", "P", "Q", "R", "S", "T", "U", "V", "W", "X", "Y", "Z"}

\* Python truthiness of an optional str: None and "" are falsy
Truthy(s) == s # None /\ s # Missing /\ s # <<>>

\* c in s
Contains(s, c) == \E i \in 1..Len(s) : s[i] = c

\* s[i:j] with 1-based inclusive bounds
Slice(s, i, j) == IF j < i THEN <<>> ELSE SubSeq(s, i, j)

RECURSIVE Dec(_)
\* str(n), n >= 0
Dec(n) == IF n < 10 THEN <<DigitChars[n + 1]>> ELSE Dec(n \div 10) \o <<DigitChars[(n % 10) + 1]>>

\* two decimal digits, zero padded (strftime %m %d %H %M)
Pad2(n) == <<DigitChars[((n \div 10) % 10) + 1], DigitChars[(n % 10) + 1]>>

\* four decimal digits (strftime %Y for the years of the model)
Year4(n) == Pad2(n \div 100) \o Pad2(n % 100)

RECURSIVE DigitRunLen(_, _)
\* length of the run of digits of s that starts at i
DigitRunLen(s, i) ==
    IF i <= Len(s) /\ IsDigit(s[i]) THEN 1 + DigitRunLen(s, i + 1) ELSE 0

RECURSIVE SpaceRunLen(_, _)
\* length of the run of blanks of s that starts at i
SpaceRunLen(s, i) ==
    IF i <= Len(s) /\ s[i] = " " THEN 1 + SpaceRunLen(s, i + 1) ELSE 0

RECURSIVE AlphaRunLen(_, _)
\* length of the run of letters of s that starts at i
AlphaRunLen(s, i) ==
    IF i <= Len(s) /\ IsAlpha(s[i]) THEN 1 + AlphaRunLen(s, i + 1) ELSE 0

RECURSIVE NumVal(_)
\* int() of a str of digits
NumVal(ds) ==
    IF ds = <<>> THEN 0 ELSE 10 * NumVal(SubSeq(ds, 1, Len(ds) - 1)) + DigitVal(ds[Len(ds)])

\* s.split(" ")[0]
FirstWord(s) ==
    IF Contains(s, " ")
    THEN Slice(s, 1, (CHOOSE i \in 1..Len(s) : s[i] = " " /\ \A j \in 1..(i - 1) : s[j] # " ") - 1)
    ELSE s

(***************************************************************************)
(* datetime.strptime and strftime, for the formats the scraper uses.       *)
(***************************************************************************)
RECURSIVE Tokens(_, _)
\* the lexical shape strptime's regular expression sees: runs of digits,
\* runs of blanks, runs of letters, and every other character on its own
Tokens(s, i) ==
    IF i > Len(s) THEN <<>>
    ELSE IF IsDigit(s[i])
         THEN LET n == DigitRunLen(s, i)
              IN  <<[t |-> "num", n |-> n, v |-> NumVal(Slice(s, i, i + n - 1)), w |-> <<>>]>>
                      \o Tokens(s, i + n)
    ELSE IF s[i] = " "
         THEN LET n == SpaceRunLen(s, i)
              IN  <<[t |-> "ws", n |-> n, v |-> 0, w |-> <<>>]>> \o Tokens(s, i + n)
    ELSE IF IsAlpha(s[i])
         THEN LET n == AlphaRunLen(s, i)
              IN  <<[t |-> "word", n |-> n, v |-> 0, w |-> Slice(s, i, i + n - 1)]>>
                      \o Tokens(s, i + n)
    ELSE <<[t |-> s[i], n |-> 1, v |-> 0, w |-> <<>>]>> \o Tokens(s, i + 1)

\* the result of a failed strptime (ValueError)
ValueError == [ok |-> FALSE, y |-> 0, mo |-> 0, d |-> 0, h |-> 0, mi |-> 0]

DaysInMonth(y, mo) ==
    IF mo = 2 THEN (IF y % 4 = 0 /\ (y % 100 # 0 \/ y % 400 = 0) THEN 29 ELSE 28)
    ELSE IF mo \in {4, 6, 9, 11} THEN 30 ELSE 31

\* the numeric fields of a matched date, checked as strptime's directives and
\* the datetime constructor check them
DateFields(ty, tm, td, th, tmi) ==
    IF /\ ty.n = 4 /\ ty.v >= 1
       /\ tm.n <= 2 /\ tm.v \in 1..12
       /\ td.n <= 2 /\ td.v \in 1..31
       /\ th.n <= 2 /\ th.v \in 0..23
       /\ tmi.n <= 2 /\ tmi.v \in 0..59
       /\ td.v <= DaysInMonth(ty.v, tm.v)
    THEN [ok |-> TRUE, y |-> ty.v, mo |-> tm.v, d |-> td.v, h |-> th.v, mi |-> tmi.v]
    ELSE ValueError

ZeroTok == [t |-> "num", n |-> 1, v |-> 0, w |-> <<>>]

\* strptime(s, "%Y<sep>%m<sep>%d")
StrptimeDate(s, sep) ==
    LET Match(tk) ==
            IF /\ Len(tk) = 5
               /\ tk[1].t = "num" /\ tk[2].t = sep /\ tk[3].t = "num"
               /\ tk[4].t = sep /\ tk[5].t = "num"
            THEN DateFields(tk[1], tk[3], tk[5], ZeroTok, ZeroTok)
            ELSE ValueError
    IN  Match(Tokens(s, 1))

\* strptime(s, "%Y<sep>%m<sep>%d %H:%M")
StrptimeDateTime(s, sep) ==
    LET Match(tk) ==
            IF /\ Len(tk) = 9
               /\ tk[1].t = "num" /\ tk[2].t = sep /\ tk[3].t = "num"
               /\ tk[4].t = sep /\ tk[5].t = "num" /\ tk[6].t = "ws"
               /\ tk[7].t = "num" /\ tk[8].t = ":" /\ tk[9].t = "num"
            THEN DateFields(tk[1], tk[3], tk[5], tk[7], tk[9])
            ELSE ValueError
    IN  Match(Tokens(s, 1))

\* strftime("%Y-%m-%d")
StrftimeDate(dt) == Year4(dt.y) \o <<"-">> \o Pad2(dt.mo) \o <<"-">> \o Pad2(dt.d)

\* strftime("%Y-%m-%d %H:%M")
StrftimeDateTime(dt) == StrftimeDate(dt) \o <<" ">> \o Pad2(dt.h) \o <<":">> \o Pad2(dt.mi)

\* datetime comparison a < b, a and b successfully parsed
DtLess(a, b) ==
    \/ a.y < b.y
    \/ a.y = b.y /\ a.mo < b.mo
    \/ a.y = b.y /\ a.mo = b.mo /\ a.d < b.d
    \/ a.y = b.y /\ a.mo = b.mo /\ a.d = b.d /\ a.h < b.h
    \/ a.y = b.y /\ a.mo = b.mo /\ a.d = b.d /\ a.h = b.h /\ a.mi < b.mi

(***************************************************************************)
(* Regular expressions (re.search, re.findall) for the patterns the        *)
(* scraper uses.  A pattern is a sequence of elements, each a character    *)
(* class with a repetition range; in every pattern modelled here a         *)
(* variable-length element is followed by an element of a disjoint class,  *)
(* so the greedy match is the match Python's backtracking matcher finds.   *)
(***************************************************************************)
Digit == {"0", "1", "2", "3", "4", "5", "6", "7", "8", "9"}

Upper == {"A", "B", "C", "D", "E", "F", "G", "H", "I", "J", "K", "L", "M",
          "N", "O", "P", "Q", "R", "S", "T", "U", "V", "W", "X", "Y", "Z"}

Lower == {"a", "b", "c", "d", "e", "f", "g", "h", "i", "j", "k", "l", "m",
          "n", "o", "p", "q", "r", "s", "t", "u", "v", "w", "x", "y", "z"}

Space == {" "}

\* the en dash (U+2013), one character of a str
EnDash == "endash"

\* the element cs{lo,hi}
El(cs, lo, hi) == [cs |-> cs, lo |-> lo, hi |-> hi]

\* the element cs{n}
Rep(cs, n) == El(cs, n, n)

\* the element cs+ (more repetitions than any text of the model is long)
Plus(cs) == El(cs, 1, 1000)

\* the element cs*
Star(cs) == El(cs, 0, 1000)

\* one literal character
Lit(c) == El({c}, 1, 1)

RECURSIVE RunLen(_, _, _, _)
\* how many characters of class cs follow at s[i..], at most hi
RunLen(s, i, cs, hi) ==
    IF hi > 0 /\ i <= Len(s) /\ s[i] \in cs THEN 1 + RunLen(s, i + 1, cs, hi - 1) ELSE 0

RECURSIVE MatchFrom(_, _, _, _)
\* re.match of the elements pat[k..] at s[i..]: <<>> when there is no match,
\* else the index after each element matched (the last is the end of the match)
MatchFrom(s, i, pat, k) ==
    IF k > Len(pat) THEN <<i>>
    ELSE LET n == RunLen(s, i, pat[k].cs, pat[k].hi)
         IN  IF n < pat[k].lo THEN <<>>
             ELSE LET rest == MatchFrom(s, i + n, pat, k + 1)
                  IN  IF rest = <<>> THEN <<>>
                      ELSE IF k = Len(pat) THEN <<i + n>> ELSE <<i + n>> \o rest

RECURSIVE SearchFrom(_, _, _)
\* re.search from index i on: <<>> or <<start>> \o the element ends of the
\* leftmost match
SearchFrom(s, i, pat) ==
    IF i > Len(s) + 1 THEN <<>>
    ELSE LET m == MatchFrom(s, i, pat, 1)
         IN  IF m # <<>> THEN <<i>> \o m ELSE SearchFrom(s, i + 1, pat)

\* re.search(pat, s)
Search(s, pat) == SearchFrom(s, 1, pat)

\* the text of a match from the start of element a to the end of element b
Group(s, m, a, b) == Slice(s, m[a], m[b + 1] - 1)

RECURSIVE FindallFrom(_, _, _)
\* re.findall of a pattern that is one group: the non-overlapping matches,
\* left to right
FindallFrom(s, i, pat) ==
    LET m == SearchFrom(s, i, pat)
    IN  IF m = <<>> THEN <<>>
        ELSE LET e == m[Len(m)]
             IN  <<Slice(s, m[1], e - 1)>>
                     \o FindallFrom(s, (IF e > m[1] THEN e ELSE e + 1), pat)

Findall(s, pat) == FindallFrom(s, 1, pat)

\* s.count(c)
Count(s, c) == Cardinality({i \in 1..Len(s) : s[i] = c})

(***************************************************************************)
(* The date pipeline of the Wuthering Waves scraper (waves_fixed.py).      *)
(***************************************************************************)
MonthNames ==
    << <<"j","a","n","u","a","r","y">>, <<"f","e","b","r","u","a","r","y">>,
       <<"m","a","r","c","h">>, <<"a","p","r","i","l">>, <<"m","a","y">>,
       <<"j","u","n","e">>, <<"j","u","l","y">>, <<"a","u","g","u","s","t">>,
       <<"s","e","p","t","e","m","b","e","r">>, <<"o","c","t","o","b","e","r">>,
       <<"n","o","v","e","m","b","e","r">>, <<"d","e","c","e","m","b","e","r">> >>

UpperSeq == <<"A", "B", "C", "D", "E", "F", "G", "H", "I", "J", "K", "L", "M",
              "N", "O", "P", "Q", "R", "S", "T", "U", "V", "W", "X", "Y", "Z">>

LowerSeq == <<"a", "b", "c", "d", "e", "f", "g", "h", "i", "j", "k", "l", "m",
              "n", "o", "p", "q", "r", "s", "t", "u", "v", "w", "x", "y", "z">>

\* c.lower()
LowerChar(c) ==
    IF c \in Upper THEN LowerSeq[CHOOSE k \in 1..26 : UpperSeq[k] = c] ELSE c

\* s.lower()
LowerStr(s) == [i \in 1..Len(s) |-> LowerChar(s[i])]

\* strptime(s, "%B %d, %Y"); %B matches a full month name in any case
StrptimeText(s) ==
    LET Match(tk) ==
            IF /\ Len(tk) = 6
               /\ tk[1].t = "word" /\ tk[2].t = "ws" /\ tk[3].t = "num"
               /\ tk[4].t = "," /\ tk[5].t = "ws" /\ tk[6].t = "num"
               /\ \E k \in 1..12 : MonthNames[k] = LowerStr(tk[1].w)
            THEN DateFields(tk[6],
                            [t |-> "num", n |-> 2, w |-> <<>>,
                             v |-> CHOOSE k \in 1..12 : MonthNames[k] = LowerStr(tk[1].w)],
                            tk[3], ZeroTok, ZeroTok)
            ELSE ValueError
    IN  Match(Tokens(s, 1))

\* the first of date_formats that parses s (scrape_waves_events), else a
\* failed parse (first_date stays None)
ParseAnyFormat(s) ==
    LET First(a, b, c, d, e) ==
            IF a.ok THEN a ELSE IF b.ok THEN b ELSE IF c.ok THEN c ELSE IF d.ok THEN d ELSE e
    IN  First(StrptimeDateTime(s, "/"), StrptimeDate(s, "/"),
              StrptimeDateTime(s, "-"), StrptimeDate(s, "-"), StrptimeText(s))

\* parse_and_format_date, the closure of validate_and_format_dates
parse_and_format_date(date_str) ==
    LET Format(date_obj) ==
            IF ~date_obj.ok THEN date_str
            ELSE IF Contains(date_str, " ") THEN StrftimeDateTime(date_obj)
            ELSE StrftimeDate(date_obj)
        Parse(sep) == IF Contains(date_str, " ") THEN StrptimeDateTime(date_str, sep)
                      ELSE StrptimeDate(date_str, sep)
    IN  IF ~Truthy(date_str) THEN <<>>
        ELSE IF Contains(date_str, "/") \/ Contains(date_str, "-")
        THEN Format(Parse(IF Contains(date_str, "/") THEN "/" ELSE "-"))
        ELSE date_str

\* DatesReversed with "not before" for "after": equal days count as reversed
DatesReversed_NotBefore(formatted_start, formatted_end) ==
    LET NotBefore(start_date, end_date) ==
            start_date.ok /\ end_date.ok /\ ~DtLess(start_date, end_date)
    IN  NotBefore(StrptimeDate(FirstWord(formatted_start), "-"),
                  StrptimeDate(FirstWord(formatted_end), "-"))

\* the comparison of validate_and_format_dates: both formatted dates, cut at
\* the first blank, parse as %Y-%m-%d and the start is after the end
DatesReversed(formatted_start, formatted_end) ==
    LET After(start_date, end_date) ==
            start_date.ok /\ end_date.ok /\ DtLess(end_date, start_date)
    IN  After(StrptimeDate(FirstWord(formatted_start), "-"),
              StrptimeDate(FirstWord(formatted_end), "-"))

\* dict.get(key, ""): the default for an absent key
GetOrEmpty(v) == IF v = Missing THEN <<>> ELSE v

\* validate_and_format_dates(event_data)
validate_and_format_dates(event_data) ==
    LET Assign(formatted_start, formatted_end, swap) ==
            [event_data EXCEPT !.start_date = IF swap THEN formatted_end ELSE formatted_start,
                               !.end_date   = IF swap THEN formatted_start ELSE formatted_end]
        Check(formatted_start, formatted_end) ==
            Assign(formatted_start, formatted_end,
                   /\ formatted_start # <<>> /\ formatted_end # <<>>
                   /\ DatesReversed(formatted_start, formatted_end))
    IN  Check(parse_and_format_date(GetOrEmpty(event_data.start_date)),
              parse_and_format_date(GetOrEmpty(event_data.end_date)))

Alpha == Upper \cup Lower

\* (\d{4}-\d{2}-\d{2}\s+\d{2}:\d{2})
TimestampPattern ==
    <<Rep(Digit, 4), Lit("-"), Rep(Digit, 2), Lit("-"), Rep(Digit, 2), Plus(Space),
      Rep(Digit, 2), Lit(":"), Rep(Digit, 2)>>

\* (\d{4}-\d{2}-\d{2})
HyphenDatePattern == <<Rep(Digit, 4), Lit("-"), Rep(Digit, 2), Lit("-"), Rep(Digit, 2)>>

\* (\d{2}:\d{2})
TimePattern == <<Rep(Digit, 2), Lit(":"), Rep(Digit, 2)>>

\* \d{4}
YearPattern == <<Rep(Digit, 4)>>

\* ([A-Za-z]+\s+\d{1,2},\s+\d{4})\s*[<en dash>-]\s*([A-Za-z]+\s+\d{1,2},\s+\d{4})
RangePattern1 ==
    <<Plus(Alpha), Plus(Space), El(Digit, 1, 2), Lit(","), Plus(Space), Rep(Digit, 4),
      Star(Space), El({EnDash, "-"}, 1, 1), Star(Space),
      Plus(Alpha), Plus(Space), El(Digit, 1, 2), Lit(","), Plus(Space), Rep(Digit, 4)>>

\* ([A-Za-z]+\s+\d{1,2})\s*[<en dash>-]\s*([A-Za-z]+\s+\d{1,2},\s+\d{4})
RangePattern2 ==
    <<Plus(Alpha), Plus(Space), El(Digit, 1, 2),
      Star(Space), El({EnDash, "-"}, 1, 1), Star(Space),
      Plus(Alpha), Plus(Space), El(Digit, 1, 2), Lit(","), Plus(Space), Rep(Digit, 4)>>

\* the branch of extract_dates_from_duration_cell for an attribute that holds
\* one timestamp: the attribute is cut in the middle and each half searched
SplitInHalf(data_sort_value) ==
    LET middle      == Len(data_sort_value) \div 2
        first_half  == Slice(data_sort_value, 1, middle)
        second_half == Slice(data_sort_value, middle + 1, Len(data_sort_value))
        end_match   == Search(first_half, HyphenDatePattern)
        start_match == Search(second_half, HyphenDatePattern)
        end_time    == Search(first_half, TimePattern)
        start_time  == Search(second_half, TimePattern)
    IN  IF end_match # <<>> /\ start_match # <<>>
        THEN [start_date |-> Group(second_half, start_match, 1, 5)
                               \o (IF start_time # <<>>
                                   THEN <<" ">> \o Group(second_half, start_time, 1, 3)
                                   ELSE <<>>),
              end_date   |-> Group(first_half, end_match, 1, 5)
                               \o (IF end_time # <<>>
                                   THEN <<" ">> \o Group(first_half, end_time, 1, 3)
                                   ELSE <<>>)]
        ELSE [start_date |-> None, end_date |-> None]

\* the branch of extract_dates_from_duration_cell that parses the visible text
DatesFromCellText(duration_text) ==
    LET match1 == Search(duration_text, RangePattern1)
        match2 == Search(duration_text, RangePattern2)
        year_match == Search(duration_text, YearPattern)
    IN  IF match1 # <<>>
        THEN [start_date |-> Group(duration_text, match1, 1, 6),
              end_date   |-> Group(duration_text, match1, 10, 15)]
        ELSE IF match2 # <<>> /\ year_match # <<>>
        THEN [start_date |-> Group(duration_text, match2, 1, 3) \o <<",", " ">>
                               \o Group(duration_text, year_match, 1, 1),
              end_date   |-> Group(duration_text, match2, 7, 12)]
        ELSE [start_date |-> None, end_date |-> None]

\* AssignSortValueDates with the first timestamp taken as the start
AssignSortValueDates_FirstIsStart(dates) == [start_date |-> dates[1], end_date |-> dates[2]]

\* the assignment of the two timestamps found in data-sort-value
AssignSortValueDates(dates) == [start_date |-> dates[2], end_date |-> dates[1]]

\* extract_dates_from_duration_cell(duration_cell); a cell is its
\* data-sort-value attribute (None when absent) and its visible text, stripped
extract_dates_from_duration_cell(duration_cell) ==
    IF duration_cell.data_sort_value # None
    THEN LET data_sort_value == duration_cell.data_sort_value
         IN  IF Len(data_sort_value) >= 32 /\ Count(data_sort_value, "-") >= 4
             THEN LET dates == Findall(data_sort_value, TimestampPattern)
                  IN  IF Len(dates) >= 2 THEN AssignSortValueDates(dates)
                      ELSE IF Len(dates) = 1 THEN SplitInHalf(data_sort_value)
                      ELSE [start_date |-> None, end_date |-> None]
             ELSE DatesFromCellText(duration_cell.text)
    ELSE [start_date |-> None, end_date |-> None]

\* the "Process dates" step of scrape_waves_events: the dates of the cell in
\* chronological order when both parse, else as extracted
ProcessDates(start_date, end_date) ==
    LET Ordered(first_date, second_date) ==
            IF first_date.ok /\ second_date.ok /\ DtLess(second_date, first_date)
            THEN [start_date |-> end_date, end_date |-> start_date]
            ELSE [start_date |-> start_date, end_date |-> end_date]
    IN  IF Truthy(start_date) /\ Truthy(end_date)
        THEN Ordered(ParseAnyFormat(start_date), ParseAnyFormat(end_date))
        ELSE [start_date |-> start_date, end_date |-> end_date]

(***************************************************************************)
(* Python dict, as the sequence of its items in insertion order.           *)
(***************************************************************************)
DictHas(d, k) == \E i \in 1..Len(d) : d[i].k = k

DictGet(d, k) == d[CHOOSE i \in 1..Len(d) : d[i].k = k].v

\* d[k] = v
DictPut(d, k, v) ==
    IF DictHas(d, k)
    THEN [i \in 1..Len(d) |-> IF d[i].k = k THEN [k |-> k, v |-> v] ELSE d[i]]
    ELSE Append(d, [k |-> k, v |-> v])

DictKeys(d) == {d[i].k : i \in 1..Len(d)}

(***************************************************************************)
(* Quantities.                                                             *)
(***************************************************************************)
RECURSIVE Remove(_, _)
\* s.replace(c, '')
Remove(s, c) ==
    IF s = <<>> THEN <<>>
    ELSE IF Head(s) = c THEN Remove(Tail(s), c) ELSE <<Head(s)>> \o Remove(Tail(s), c)

\* int(s) succeeds (s is already stripped; the texts of the model carry no sign)
IsInt(s) == s # <<>> /\ \A i \in 1..Len(s) : s[i] \in Digit

\* the outcome of int(quantity_text.replace(',', '')): ok is FALSE for ValueError
CardQuantity(quantity_text) ==
    LET cleaned == Remove(quantity_text, ",")
    IN  IF IsInt(cleaned) THEN [ok |-> TRUE, n |-> NumVal(cleaned)] ELSE [ok |-> FALSE, n |-> 0]

(***************************************************************************)
(* genshin_final.py, scrape_rewards.  A card is the first link of a        *)
(* card-container (its title, whether its image or its href names the      *)
(* primogem) and the text of its card-text span (None when it has none).   *)
(***************************************************************************)
Primogem == <<"P", "r", "i", "m", "o", "g", "e", "m">>

Mora == <<"M", "o", "r", "a">>

\* how many trailing cards Method 2 takes for the summary cards
SummaryCards == 10

\* the item name of a card in the card-list-container loop
ContainerCardName(card) ==
    IF ~card.has_link THEN <<>>
    ELSE IF card.title # <<>> THEN card.title
    ELSE IF card.img_primogem \/ card.href_primogem THEN Primogem
    ELSE <<>>

\* the item name of a card in the other loops
PlainCardName(card) ==
    IF card.title # <<>> THEN card.title
    ELSE IF card.href_primogem THEN Primogem
    ELSE <<>>

\* "keep the higher value": the update of rewards by one parsed card
KeepHigher(rewards, item_name, quantity) ==
    IF DictHas(rewards, item_name)
    THEN (IF quantity > DictGet(rewards, item_name)
          THEN DictPut(rewards, item_name, quantity) ELSE rewards)
    ELSE DictPut(rewards, item_name, quantity)

RECURSIVE ContainerCards(_, _)
\* the loop over the cards of the card-list-container
ContainerCards(cards, rewards) ==
    IF cards = <<>> THEN rewards
    ELSE LET card == Head(cards)
             item_name == ContainerCardName(card)
             q == IF card.qty = None THEN [ok |-> FALSE, n |-> 0] ELSE CardQuantity(card.qty)
         IN  ContainerCards(Tail(cards),
                 IF item_name # <<>> /\ card.qty # None /\ card.qty # <<>> /\ q.ok
                 THEN KeepHigher(rewards, item_name, q.n)
                 ELSE rewards)

\* a summary card resets what was collected before it
IsSummaryCard(item_name, quantity) ==
    \/ item_name = Primogem /\ quantity > 100
    \/ item_name = Mora /\ quantity > 100000

RECURSIVE CardsAfterHeading(_, _)
\* the loop over all the cards that follow the heading, when there is no
\* card-list-container
CardsAfterHeading(cards, rewards) ==
    IF cards = <<>> THEN rewards
    ELSE LET card == Head(cards)
             item_name == PlainCardName(card)
             q == IF card.qty = None THEN [ok |-> FALSE, n |-> 0] ELSE CardQuantity(card.qty)
         IN  CardsAfterHeading(Tail(cards),
                 IF card.has_link /\ card.qty # None /\ item_name # <<>> /\ card.qty # <<>> /\ q.ok
                 THEN KeepHigher((IF IsSummaryCard(item_name, q.n) THEN <<>> ELSE rewards),
                                 item_name, q.n)
                 ELSE rewards)

RECURSIVE AllCardsHighest(_, _)
\* Method 2, all_rewards: every card of the page, highest value per name
AllCardsHighest(cards, all_rewards) ==
    IF cards = <<>> THEN all_rewards
    ELSE LET card == Head(cards)
             item_name == PlainCardName(card)
             q == IF card.qty = None THEN [ok |-> FALSE, n |-> 0] ELSE CardQuantity(card.qty)
         IN  AllCardsHighest(Tail(cards),
                 IF card.has_link /\ card.qty # None /\ item_name # <<>> /\ card.qty # <<>> /\ q.ok
                 THEN KeepHigher(all_rewards, item_name, q.n)
                 ELSE all_rewards)

RECURSIVE SummaryCardsLast(_, _)
\* Method 2, the last cards of the page: each parsed card sets its name
SummaryCardsLast(cards, rewards) ==
    IF cards = <<>> THEN rewards
    ELSE LET card == Head(cards)
             item_name == PlainCardName(card)
             q == IF card.qty = None THEN [ok |-> FALSE, n |-> 0] ELSE CardQuantity(card.qty)
         IN  SummaryCardsLast(Tail(cards),
                 IF card.has_link /\ card.qty # None /\ item_name # <<>> /\ card.qty # <<>> /\ q.ok
                 THEN DictPut(rewards, item_name, q.n)
                 ELSE rewards)

\* Method 2 of scrape_rewards
GenshinMethod2(cards) ==
    LET all_rewards == AllCardsHighest(cards, <<>>)
        rewards == IF Len(cards) >= SummaryCards
                   THEN SummaryCardsLast(SubSeq(cards, Len(cards) - SummaryCards + 1, Len(cards)), <<>>)
                   ELSE <<>>
    IN  IF rewards = <<>> THEN all_rewards ELSE rewards

\* scrape_rewards(url) of genshin_final.py on a fetched page; page.heading:
\* there is a "Total Rewards" heading; page.container: a card-list-container
\* follows it and holds the cards; else the cards follow the heading
GenshinScrapeRewards(page) ==
    IF ~page.fetched THEN <<>>
    ELSE LET rewards == IF ~page.heading THEN <<>>
                        ELSE IF page.container THEN ContainerCards(page.cards, <<>>)
                        ELSE CardsAfterHeading(page.cards, <<>>)
         IN  IF rewards = <<>> THEN GenshinMethod2(page.cards) ELSE rewards

\* common_ui_elements without the labels of the edit links
common_ui_elements_SignIn ==
    {<<"S", "i", "g", "n", " ", "i", "n", " ", "t", "o", " ", "e", "d", "i", "t">>,
     <<"S", "i", "g", "n", " ", "I", "n">>}

(***************************************************************************)
(* waves_fixed.py, scrape_rewards.                                         *)
(***************************************************************************)
\* common_ui_elements
common_ui_elements ==
    {<<"S", "i", "g", "n", " ", "i", "n", " ", "t", "o", " ", "e", "d", "i", "t">>,
     <<"E", "d", "i", "t">>,
     <<"A", "d", "d">>,
     <<"S", "i", "g", "n", " ", "I", "n">>,
     <<"C", "r", "e", "a", "t", "e">>,
     <<"V", "i", "e", "w", " ", "s", "o", "u", "r", "c", "e">>}

\* (\d[\d,]*)
QuantityPattern == <<Rep(Digit, 1), Star(Digit \cup {","})>>

\* the quantity Methods 1 and 2 read from a text: the first run of digits
\* and commas, commas removed; 1 when the text holds no digit
FirstNumberOrOne(quantity_text) ==
    LET quantity_match == Search(quantity_text, QuantityPattern)
    IN  IF quantity_match # <<>>
        THEN NumVal(Remove(Group(quantity_text, quantity_match, 1, 2), ","))
        ELSE 1

RECURSIVE WavesMethod1(_, _)
\* Method 1: the links that follow the "Total Rewards" heading; a link is its
\* stripped text, its title and the text of the span that follows it (None
\* when no span follows)
WavesMethod1(reward_links, rewards) ==
    IF reward_links = <<>> THEN rewards
    ELSE LET link == Head(reward_links)
             item_name == IF link.text # <<>> THEN link.text ELSE link.title
         IN  WavesMethod1(Tail(reward_links),
                 IF item_name \in common_ui_elements THEN rewards
                 ELSE IF item_name # <<>> /\ ~DictHas(rewards, item_name)
                      THEN (IF link.sibling # None /\ link.sibling # <<>>
                            THEN DictPut(rewards, item_name, FirstNumberOrOne(link.sibling))
                            ELSE DictPut(rewards, item_name, 1))
                 ELSE rewards)

RECURSIVE WavesTableRows(_, _)
\* Method 2, the rows of one rewards table: a row is the stripped texts of
\* its cells
WavesTableRows(rows, rewards) ==
    IF rows = <<>> THEN rewards
    ELSE LET cells == Head(rows)
         IN  WavesTableRows(Tail(rows),
                 IF Len(cells) >= 2 /\ cells[1] \notin common_ui_elements /\ cells[1] # <<>>
                 THEN DictPut(rewards, cells[1], FirstNumberOrOne(cells[2]))
                 ELSE rewards)

\* Method 2: the table whose text contains "rewards", its header row skipped
\* when it has more than one row
WavesMethod2(rows) ==
    WavesTableRows((IF Len(rows) > 1 THEN Tail(rows) ELSE rows), <<>>)

\* the update of rewards by one parsed card of Method 3
StoreCard(rewards, item_name, quantity) == DictPut(rewards, item_name, quantity)

\* Method 3 left out: the card-containers are not scanned
WavesMethod3_NotRun(card_containers, rewards) == rewards

RECURSIVE WavesMethod3(_, _)
\* Method 3: every card-container of the page; a card is the link of its
\* card-caption (title, stripped text) and the text of its card-text span
WavesMethod3(card_containers, rewards) ==
    IF card_containers = <<>> THEN rewards
    ELSE LET card == Head(card_containers)
             item_name == IF card.title # <<>> THEN card.title ELSE card.text
             q == IF card.qty = None THEN [ok |-> FALSE, n |-> 0] ELSE CardQuantity(card.qty)
         IN  WavesMethod3(Tail(card_containers),
                 IF /\ card.has_link
                    /\ item_name \notin common_ui_elements
                    /\ item_name # <<>> /\ card.qty # None /\ q.ok
                 THEN StoreCard(rewards, item_name, q.n)
                 ELSE rewards)

\* scrape_rewards(url) of waves_fixed.py on a fetched page
WavesScrapeRewards(page) ==
    IF ~page.fetched THEN <<>>
    ELSE LET method1 == IF page.heading THEN WavesMethod1(page.links, <<>>) ELSE <<>>
             method2 == IF method1 = <<>> THEN WavesMethod2(page.rows) ELSE method1
         IN  WavesMethod3(page.cards, method2)

(***************************************************************************)
(* discord_bot_updated.py, parse_reward_string and format_rewards.  A      *)
(* Python value that is an int or a str is a record: int tells which, n    *)
(* is the int and s the str.                                               *)
(***************************************************************************)
PyInt(n) == [int |-> TRUE, n |-> n, s |-> <<>>]

PyStr(s) == [int |-> FALSE, n |-> 0, s |-> s]

\* the last index of c in s, 0 when s does not hold c
LastIndexOf(s, c) ==
    IF \E i \in 1..Len(s) : s[i] = c
    THEN CHOOSE i \in 1..Len(s) : s[i] = c /\ \A j \in (i + 1)..Len(s) : s[j] # c
    ELSE 0

\* parse_reward_string(reward_str): the pair (name, quantity)
parse_reward_string(reward_str) ==
    LET colon == LastIndexOf(reward_str, ":")
    IN  IF colon > 0
        THEN LET name     == Slice(reward_str, 1, colon - 1)
                 quantity == Slice(reward_str, colon + 1, Len(reward_str))
             IN  [name |-> name,
                  quantity |-> IF IsInt(quantity) THEN PyInt(NumVal(quantity))
                               ELSE PyStr(quantity)]
        ELSE [name |-> reward_str, quantity |-> PyInt(1)]

\* str(v), as an f-string renders a value without a format
ToStr(v) == IF v.int THEN Dec(v.n) ELSE v.s

RECURSIVE Commas(_)
\* f"{n:,}" for n >= 0
Commas(n) ==
    IF n < 1000 THEN Dec(n)
    ELSE Commas(n \div 1000) \o <<",">> \o Tail(Dec(1000 + (n % 1000)))

\* MergeQuantity keeping the higher of two ints instead of adding them
MergeQuantity_KeepHigher(old, quantity) ==
    IF old.int /\ quantity.int THEN PyInt(IF quantity.n > old.n THEN quantity.n ELSE old.n)
    ELSE PyStr(ToStr(old) \o <<",", " ">> \o ToStr(quantity))

\* the value stored for a name that is already in reward_dict
MergeQuantity(old, quantity) ==
    IF old.int /\ quantity.int THEN PyInt(old.n + quantity.n)
    ELSE PyStr(ToStr(old) \o <<",", " ">> \o ToStr(quantity))

RECURSIVE RewardDict(_, _)
\* the loop of format_rewards that turns the list into reward_dict
RewardDict(reward_data, reward_dict) ==
    IF reward_data = <<>> THEN reward_dict
    ELSE LET parsed == parse_reward_string(Head(reward_data))
         IN  RewardDict(Tail(reward_data),
                 IF DictHas(reward_dict, parsed.name)
                 THEN DictPut(reward_dict, parsed.name,
                              MergeQuantity(DictGet(reward_dict, parsed.name), parsed.quantity))
                 ELSE DictPut(reward_dict, parsed.name, parsed.quantity))

\* the characters of the model in code point order
CodePoints == <<"\n", " ", "*", ",">> \o DigitChars \o <<":">> \o UpperSeq \o LowerSeq

Ord(c) == CHOOSE i \in 1..Len(CodePoints) : CodePoints[i] = c

RECURSIVE StrLess(_, _)
\* a < b for two str
StrLess(a, b) ==
    IF b = <<>> THEN FALSE
    ELSE IF a = <<>> THEN TRUE
    ELSE IF Head(a) # Head(b) THEN Ord(Head(a)) < Ord(Head(b))
    ELSE StrLess(Tail(a), Tail(b))

RECURSIVE Sorted(_)
\* sorted(items) for a set of distinct str
Sorted(items) ==
    IF items = {} THEN <<>>
    ELSE LET first == CHOOSE x \in items : \A y \in items : x = y \/ StrLess(x, y)
         IN  <<first>> \o Sorted(items \ {first})

RECURSIVE Join(_, _)
\* sep.join(lines)
Join(lines, sep) ==
    IF lines = <<>> THEN <<>>
    ELSE IF Len(lines) = 1 THEN lines[1]
    ELSE lines[1] \o sep \o Join(Tail(lines), sep)

Astrite == <<"A", "s", "t", "r", "i", "t", "e">>

ShellCredit == <<"S", "h", "e", "l", "l", " ", "C", "r", "e", "d", "i", "t">>

\* priority_items of the dict branch and of the list branch
DictPriorityItems == <<Primogem, Mora, Astrite, ShellCredit>>

ListPriorityItems ==
    <<Astrite, ShellCredit,
      <<"L", "u", "s", "t", "r", "o", "u", "s", " ", "T", "i", "d", "e">>,
      <<"R", "a", "d", "i", "a", "n", "t", " ", "T", "i", "d", "e">>>>

\* f"**{item}**: {quantity}", an int quantity with thousands separators
RewardLine(item, value) ==
    <<"*", "*">> \o item \o <<"*", "*", ":", " ">>
        \o (IF value.int THEN Commas(value.n) ELSE value.s)

\* the lines of a reward dict: the priority items it holds, then the others
\* sorted
FormattedRewards(reward_dict, priority_items) ==
    LET priority == SelectSeq(priority_items, LAMBDA item : DictHas(reward_dict, item))
        others   == Sorted(DictKeys(reward_dict)
                              \ {priority_items[i] : i \in 1..Len(priority_items)})
        items    == priority \o others
    IN  [i \in 1..Len(items) |-> RewardLine(items[i], DictGet(reward_dict, items[i]))]

NoRewardInformation ==
    <<"N", "o", " ", "r", "e", "w", "a", "r", "d", " ", "i", "n", "f", "o", "r", "m",
      "a", "t", "i", "o", "n", " ", "a", "v", "a", "i", "l", "a", "b", "l", "e">>

\* an argument of format_rewards
RewardArgument(type, list, dict, str) == [type |-> type, list |-> list, dict |-> dict, str |-> str]

\* format_rewards(reward_data); reward_data.type is the Python type of the
\* argument ("list", "dict", "str" or "NoneType") and the field of that name
\* holds the argument
format_rewards(reward_data) ==
    IF \/ reward_data.type = "NoneType"
       \/ reward_data.type = "list" /\ reward_data.list = <<>>
       \/ reward_data.type = "dict" /\ reward_data.dict = <<>>
       \/ reward_data.type = "str" /\ reward_data.str = <<>>
    THEN NoRewardInformation
    ELSE IF reward_data.type = "dict"
    THEN Join(FormattedRewards(reward_data.dict, DictPriorityItems), <<"\n">>)
    ELSE IF reward_data.type = "list"
    THEN Join(FormattedRewards(RewardDict(reward_data.list, <<>>), ListPriorityItems), <<"\n">>)
    ELSE reward_data.str

(***************************************************************************)
(* json.dump and json.load.  A value of a snapshot is a record: t is its   *)
(* Python type, n the int, s the str, items the elements of a list or the  *)
(* items of a dict (records of a key k and a value v).                     *)
(***************************************************************************)
JNull == [t |-> "NoneType", n |-> 0, s |-> <<>>, items |-> <<>>]

JInt(n) == [t |-> "int", n |-> n, s |-> <<>>, items |-> <<>>]

JStr(s) == [t |-> "str", n |-> 0, s |-> s, items |-> <<>>]

JList(items) == [t |-> "list", n |-> 0, s |-> <<>>, items |-> items]

JDict(items) == [t |-> "dict", n |-> 0, s |-> <<>>, items |-> items]

RECURSIVE Concat(_)
\* "".join(parts)
Concat(parts) ==
    IF parts = <<>> THEN <<>>
    ELSE IF Len(parts) = 1 THEN parts[1]
    ELSE LET half == Len(parts) \div 2
         IN  Concat(SubSeq(parts, 1, half)) \o Concat(SubSeq(parts, half + 1, Len(parts)))

\* EscapeString without the escapes: every character is written as it is
EscapeString_Raw(s) == s

\* the body of a JSON string (ensure_ascii=False: only the quote, the
\* backslash and the control characters are escaped)
EscapeString(s) ==
    LET EscapeChar(c) == CASE c = "\"" -> <<"\\", "\"">>
                           [] c = "\\" -> <<"\\", "\\">>
                           [] c = "\n" -> <<"\\", "n">>
                           [] OTHER -> <<c>>
    IN  Concat([i \in 1..Len(s) |-> EscapeChar(s[i])])

RECURSIVE Encode(_, _, _)
\* the text of a value at a nesting level: the items of a list or dict are
\* written one per line, indented by width blanks per level
Encode(v, width, level) ==
    LET NewLine(l) == <<"\n">> \o [i \in 1..(width * l) |-> " "]
        open  == IF v.t = "dict" THEN "{" ELSE "["
        close == IF v.t = "dict" THEN "}" ELSE "]"
        item(i) == IF v.t = "dict"
                   THEN <<"\"">> \o EscapeString(v.items[i].k) \o <<"\"", ":", " ">>
                            \o Encode(v.items[i].v, width, level + 1)
                   ELSE Encode(v.items[i], width, level + 1)
    IN  CASE v.t = "NoneType" -> <<"n", "u", "l", "l">>
          [] v.t = "int" -> Dec(v.n)
          [] v.t = "str" -> <<"\"">> \o EscapeString(v.s) \o <<"\"">>
          [] OTHER ->
                IF v.items = <<>> THEN <<open, close>>
                ELSE <<open>> \o NewLine(level + 1)
                         \o Concat([i \in 1..Len(v.items) |->
                                       IF i = Len(v.items) THEN item(i)
                                       ELSE item(i) \o <<",">> \o NewLine(level + 1)])
                         \o NewLine(level) \o <<close>>

\* json.dumps(data, indent=width, ensure_ascii=False)
JsonDumps(data, width) == Encode(data, width, 0)

\* the decoder found no JSON value
JSONDecodeError == [ok |-> FALSE, v |-> JNull, next |-> 0]

RECURSIVE SkipWhitespace(_, _)
\* the index of the first character from i on that is not whitespace
SkipWhitespace(s, i) ==
    IF i <= Len(s) /\ s[i] \in {" ", "\n"} THEN SkipWhitespace(s, i + 1) ELSE i

\* the JSON string whose body starts at i: its value and the index after
\* its closing quote; a character is escaped when the backslashes right
\* before it are odd in number (of the escapes, the decoder of the model
\* knows those the encoder writes)
ParseString(s, i) ==
    LET BackslashRun(j) == CHOOSE k \in 0..(j - i) :
                               /\ \A p \in (j - k)..(j - 1) : s[p] = "\\"
                               /\ k = j - i \/ s[j - k - 1] # "\\"
        Escaped(p) == BackslashRun(p) % 2 = 1
        Closes(j)  == s[j] = "\"" /\ ~Escaped(j)
        close      == CHOOSE j \in i..Len(s) : Closes(j) /\ \A q \in i..(j - 1) : s[q] # "\"" \/ Escaped(q)
        Unescape(p) ==
            IF Escaped(p) THEN (IF s[p] = "n" THEN <<"\n">> ELSE <<s[p]>>)
            ELSE IF s[p] = "\\" THEN <<>>
            ELSE <<s[p]>>
    IN  IF ~\E j \in i..Len(s) : Closes(j) THEN JSONDecodeError
        ELSE IF \E p \in i..(close - 1) :
                   \/ s[p] = "\n"
                   \/ Escaped(p) /\ s[p] \notin {"\"", "\\", "n"}
        THEN JSONDecodeError
        ELSE [ok |-> TRUE, v |-> JStr(Concat([k \in 1..(close - i) |-> Unescape(i + k - 1)])),
              next |-> close + 1]

RECURSIVE ParseValue(_, _)
RECURSIVE ParseElements(_, _, _)
RECURSIVE ParseMembers(_, _, _)
\* the elements of a list from i, after those of acc
ParseElements(s, i, acc) ==
    LET element == ParseValue(s, SkipWhitespace(s, i))
        j       == SkipWhitespace(s, element.next)
    IN  IF ~element.ok \/ j > Len(s) THEN JSONDecodeError
        ELSE IF s[j] = "," THEN ParseElements(s, j + 1, Append(acc, element.v))
        ELSE IF s[j] = "]" THEN [ok |-> TRUE, v |-> JList(Append(acc, element.v)), next |-> j + 1]
        ELSE JSONDecodeError

\* the members of a dict from i, after those of acc; a repeated key keeps its
\* place and takes the later value
ParseMembers(s, i, acc) ==
    LET k     == SkipWhitespace(s, i)
        key   == IF k <= Len(s) /\ s[k] = "\"" THEN ParseString(s, k + 1) ELSE JSONDecodeError
        colon == SkipWhitespace(s, key.next)
    IN  IF ~key.ok \/ colon > Len(s) \/ s[colon] # ":" THEN JSONDecodeError
        ELSE LET member == ParseValue(s, SkipWhitespace(s, colon + 1))
                 j      == SkipWhitespace(s, member.next)
                 items  == DictPut(acc, key.v.s, member.v)
             IN  IF ~member.ok \/ j > Len(s) THEN JSONDecodeError
                 ELSE IF s[j] = "," THEN ParseMembers(s, j + 1, items)
                 ELSE IF s[j] = "}" THEN [ok |-> TRUE, v |-> JDict(items), next |-> j + 1]
                 ELSE JSONDecodeError

\* the JSON value that starts at i (i is not whitespace)
ParseValue(s, i) ==
    IF i > Len(s) THEN JSONDecodeError
    ELSE IF s[i] = "\"" THEN ParseString(s, i + 1)
    ELSE IF s[i] \in Digit
    THEN LET n == DigitRunLen(s, i)
         IN  IF (n > 1 /\ s[i] = "0") \/ (i + n <= Len(s) /\ s[i + n] \in {".", "e", "E"})
             THEN JSONDecodeError
             ELSE [ok |-> TRUE, v |-> JInt(NumVal(SubSeq(s, i, i + n - 1))), next |-> i + n]
    ELSE IF s[i] = "n"
    THEN (IF i + 3 <= Len(s) /\ SubSeq(s, i, i + 3) = <<"n", "u", "l", "l">>
          THEN [ok |-> TRUE, v |-> JNull, next |-> i + 4] ELSE JSONDecodeError)
    ELSE IF s[i] = "["
    THEN LET j == SkipWhitespace(s, i + 1)
         IN  IF j <= Len(s) /\ s[j] = "]" THEN [ok |-> TRUE, v |-> JList(<<>>), next |-> j + 1]
             ELSE ParseElements(s, j, <<>>)
    ELSE IF s[i] = "{"
    THEN LET j == SkipWhitespace(s, i + 1)
         IN  IF j <= Len(s) /\ s[j] = "}" THEN [ok |-> TRUE, v |-> JDict(<<>>), next |-> j + 1]
             ELSE ParseMembers(s, j, <<>>)
    ELSE JSONDecodeError

\* json.loads(text): ok is FALSE when it raises JSONDecodeError
JsonLoads(text) ==
    LET value == ParseValue(text, SkipWhitespace(text, 1))
    IN  IF value.ok /\ SkipWhitespace(text, value.next) > Len(text) THEN value
        ELSE JSONDecodeError

(***************************************************************************)
(* The event-list extractors.  A link of the index page is its href (None  *)
(* when it has none), its stripped text, and whether the detail page it    *)
(* leads to can be fetched (sample_ok tells it for the links of the        *)
(* sample); the detail pages of the model hold no infobox, no dates and no *)
(* reward items.                                                           *)
(***************************************************************************)
\* s.startswith(prefix)
StartsWith(s, prefix) == Len(s) >= Len(prefix) /\ SubSeq(s, 1, Len(prefix)) = prefix

\* sub in s
IsSubstring(sub, s) == \E i \in 1..(Len(s) - Len(sub) + 1) : SubSeq(s, i, i + Len(sub) - 1) = sub

\* an item of a dict
Item(k, v) == [k |-> k, v |-> v]

\* the keys of the event records
Key ==
    [name        |-> <<"n", "a", "m", "e">>,
     link        |-> <<"l", "i", "n", "k">>,
     start_date  |-> <<"s", "t", "a", "r", "t", "_", "d", "a", "t", "e">>,
     end_date    |-> <<"e", "n", "d", "_", "d", "a", "t", "e">>,
     type        |-> <<"t", "y", "p", "e">>,
     rewards     |-> <<"r", "e", "w", "a", "r", "d", "s">>,
     reward_list |-> <<"r", "e", "w", "a", "r", "d", "_", "l", "i", "s", "t">>,
     image_url   |-> <<"i", "m", "a", "g", "e", "_", "u", "r", "l">>,
     dates       |-> <<"d", "a", "t", "e", "s">>,
     version     |-> <<"v", "e", "r", "s", "i", "o", "n">>]

GenshinBase ==
    <<"h", "t", "t", "p", "s", ":", "/", "/", "g", "e", "n", "s", "h", "i", "n", "-", "i", "m",
      "p", "a", "c", "t", ".", "f", "a", "n", "d", "o", "m", ".", "c", "o", "m">>

WavesBase ==
    <<"h", "t", "t", "p", "s", ":", "/", "/", "w", "u", "t", "h", "e", "r", "i", "n", "g", "w",
      "a", "v", "e", "s", ".", "f", "a", "n", "d", "o", "m", ".", "c", "o", "m">>

InGame == <<"I", "n", "-", "G", "a", "m", "e">>

InGameEvent == <<"I", "n", "-", "G", "a", "m", "e", " ", "E", "v", "e", "n", "t">>

\* infer_event_type(event_name, event_link) of genshin_final.py
GenshinInferEventType(event_name, event_link) ==
    LET event_name_lower == LowerStr(event_name)
        event_link_lower == LowerStr(event_link)
        InName(keyword) == IsSubstring(keyword, event_name_lower)
        InLink(keyword) == IsSubstring(keyword, event_link_lower)
    IN  IF InName(<<"b", "a", "t", "t", "l", "e", " ", "p", "a", "s", "s">>) \/ InLink(<<"b", "a", "t", "t", "l", "e", "_", "p", "a", "s", "s">>)
        THEN InGame
        ELSE IF InName(<<"c", "o", "n", "c", "e", "r", "t">>) \/ InLink(<<"c", "o", "n", "c", "e", "r", "t">>)
        THEN <<"I", "n", "-", "P", "e", "r", "s", "o", "n">>
        ELSE IF InName(<<"t", "e", "s", "t", " ", "r", "u", "n">>) \/ InLink(<<"t", "e", "s", "t", "_", "r", "u", "n">>)
        THEN InGame
        ELSE IF InName(<<"w", "e", "b", " ", "e", "v", "e", "n", "t">>) \/ InLink(<<"w", "e", "b", "_", "e", "v", "e", "n", "t">>)
        THEN <<"W", "e", "b">>
        ELSE IF InName(<<"l", "o", "g", "i", "n">>) /\ InName(<<"e", "v", "e", "n", "t">>)
        THEN InGame
        ELSE IF InName(<<"r", "e", "d", "e", "m", "p", "t", "i", "o", "n">>) \/ InName(<<"c", "o", "d", "e">>)
        THEN <<"C", "o", "d", "e">>
        ELSE IF InName(<<"h", "o", "y", "o", "l", "a", "b">>) \/ InLink(<<"h", "o", "y", "o", "l", "a", "b">>)
        THEN <<"W", "e", "b">>
        ELSE IF InName(<<"w", "e", "l", "k", "i", "n">>)
        THEN InGame
        ELSE IF InName(<<"r", "e", "a", "l", "m">>) \/ InName(<<"b", "a", "t", "t", "l", "e">>) \/ InName(<<"w", "r", "a", "n", "g", "l", "e", "r">>)
        THEN InGame
        ELSE InGame

\* event_types of infer_event_type of the Wuthering Waves scrapers, in order
event_types ==
    <<Item(<<"b", "a", "t", "t", "l", "e">>, InGameEvent),
      Item(<<"r", "u", "s", "h">>, InGameEvent),
      Item(<<"t", "r", "i", "a", "l">>, <<"T", "r", "i", "a", "l", " ", "E", "v", "e", "n", "t">>),
      Item(<<"d", "r", "o", "p", "s">>, <<"W", "e", "b", " ", "E", "v", "e", "n", "t">>),
      Item(<<"l", "o", "g", "i", "n">>, <<"L", "o", "g", "i", "n", " ", "E", "v", "e", "n", "t">>),
      Item(<<"r", "e", "w", "a", "r", "d">>, <<"L", "o", "g", "i", "n", " ", "E", "v", "e", "n", "t">>),
      Item(<<"s", "i", "m", "u", "l", "a", "t", "i", "o", "n">>, InGameEvent),
      Item(<<"f", "a", "n">>, <<"F", "a", "n", "a", "r", "t", " ", "E", "v", "e", "n", "t">>),
      Item(<<"c", "r", "e", "a", "t", "i", "o", "n">>, <<"S", "u", "b", "m", "i", "s", "s", "i", "o", "n", " ", "E", "v", "e", "n", "t">>),
      Item(<<"p", "o", "d", "c", "a", "s", "t">>, <<"P", "i", "o", "n", "e", "e", "r", " ", "P", "o", "d", "c", "a", "s", "t">>),
      Item(<<"a", "p", "e", "x">>, InGameEvent),
      Item(<<"c", "h", "o", "r", "d">>, InGameEvent)>>

\* infer_event_type(event_name, event_link) of the Wuthering Waves scrapers
WavesInferEventType(event_name, event_link) ==
    LET event_text == LowerStr(event_name \o <<" ">> \o event_link)
        matches    == SelectSeq(event_types, LAMBDA e : IsSubstring(e.k, event_text))
    IN  IF matches # <<>> THEN matches[1].v ELSE InGameEvent

\* current_events_sample of scrape_genshin_events, as links
current_events_sample ==
    <<[href |-> <<"/", "w", "i", "k", "i", "/", "G", "e", "n", "s", "h", "i", "n", "_", "C",
                   "o", "n", "c", "e", "r", "t", "/", "G", "E", "N", "S", "H", "I", "N", "_",
                   "C", "O", "N", "C", "E", "R", "T", "_", "2", "0", "2", "4", "_", "%", "2",
                   "2", "M", "e", "l", "o", "d", "i", "e", "s", "_", "o", "f", "_", "a", "n",
                   "_", "E", "n", "d", "l", "e", "s", "s", "_", "J", "o", "u", "r", "n", "e",
                   "y", "%", "2", "2">>,
       text |-> <<"G", "E", "N", "S", "H", "I", "N", " ", "C", "O", "N", "C", "E", "R", "T",
                   " ", "2", "0", "2", "4", " ", "\"", "M", "e", "l", "o", "d", "i", "e", "s",
                   " ", "o", "f", " ", "a", "n", " ", "E", "n", "d", "l", "e", "s", "s", " ",
                   "J", "o", "u", "r", "n", "e", "y", "\"">>,
       detail_ok |-> FALSE],
      [href |-> <<"/", "w", "i", "k", "i", "/", "B", "a", "t", "t", "l", "e", "_", "P", "a",
                   "s", "s", "/", "W", "o", "n", "d", "r", "o", "u", "s", "_", "R", "e", "v",
                   "e", "r", "i", "e">>,
       text |-> <<"W", "o", "n", "d", "r", "o", "u", "s", " ", "R", "e", "v", "e", "r", "i",
                   "e">>,
       detail_ok |-> FALSE],
      [href |-> <<"/", "w", "i", "k", "i", "/", "T", "r", "a", "v", "e", "l", "e", "r", "s",
                   "%", "2", "7", "_", "T", "a", "l", "e", "s", ":", "_", "A", "n", "t", "h",
                   "o", "l", "o", "g", "y", "_", "C", "h", "a", "p", "t", "e", "r">>,
       text |-> <<"T", "r", "a", "v", "e", "l", "e", "r", "s", "'", " ", "T", "a", "l", "e",
                   "s", ":", " ", "A", "n", "t", "h", "o", "l", "o", "g", "y", " ", "C", "h",
                   "a", "p", "t", "e", "r">>,
       detail_ok |-> FALSE],
      [href |-> <<"/", "w", "i", "k", "i", "/", "T", "h", "e", "_", "F", "o", "r", "g", "e",
                   "_", "R", "e", "a", "l", "m", "%", "2", "7", "s", "_", "T", "e", "m", "p",
                   "e", "r", "/", "2", "0", "2", "5", "-", "0", "2", "-", "1", "2">>,
       text |-> <<"T", "h", "e", " ", "F", "o", "r", "g", "e", " ", "R", "e", "a", "l", "m",
                   "'", "s", " ", "T", "e", "m", "p", "e", "r", ":", " ", "C", "l", "e", "v",
                   "e", "r", " ", "S", "t", "r", "a", "t", "a", "g", "e", "m", "s">>,
       detail_ok |-> FALSE],
      [href |-> <<"/", "w", "i", "k", "i", "/", "H", "e", "a", "t", "e", "d", "_", "B", "a",
                   "t", "t", "l", "e", "_", "M", "o", "d", "e", "/", "2", "0", "2", "5", "-",
                   "0", "2", "-", "2", "1">>,
       text |-> <<"H", "e", "a", "t", "e", "d", " ", "B", "a", "t", "t", "l", "e", " ", "M",
                   "o", "d", "e", ":", " ", "A", "u", "t", "o", "m", "a", "t", "i", "c", " ",
                   "A", "r", "t", "i", "s", "t", "r", "y">>,
       detail_ok |-> FALSE],
      [href |-> <<"/", "w", "i", "k", "i", "/", "R", "e", "a", "l", "m", "_", "o", "f", "_",
                   "T", "e", "m", "p", "e", "r", "e", "d", "_", "V", "a", "l", "o", "r">>,
       text |-> <<"R", "e", "a", "l", "m", " ", "o", "f", " ", "T", "e", "m", "p", "e", "r",
                   "e", "d", " ", "V", "a", "l", "o", "r">>,
       detail_ok |-> FALSE],
      [href |-> <<"/", "w", "i", "k", "i", "/", "T", "e", "s", "t", "_", "R", "u", "n", "_",
                   "-", "_", "C", "h", "a", "r", "a", "c", "t", "e", "r", "_", "T", "r", "i",
                   "a", "l", "_", "E", "v", "e", "n", "t", "/", "2", "0", "2", "5", "-", "0",
                   "3", "-", "0", "4">>,
       text |-> <<"T", "e", "s", "t", " ", "R", "u", "n", " ", "-", " ", "F", "u", "r", "i",
                   "n", "a", ",", " ", "W", "r", "i", "o", "t", "h", "e", "s", "l", "e", "y",
                   ",", " ", "C", "h", "a", "r", "l", "o", "t", "t", "e", ",", " ", "C", "h",
                   "o", "n", "g", "y", "u", "n", ",", " ", "M", "i", "k", "a">>,
       detail_ok |-> FALSE],
      [href |-> <<"/", "w", "i", "k", "i", "/", "I", "n", "v", "a", "s", "i", "v", "e", "_",
                   "F", "i", "s", "h", "_", "W", "r", "a", "n", "g", "l", "e", "r">>,
       text |-> <<"I", "n", "v", "a", "s", "i", "v", "e", " ", "F", "i", "s", "h", " ", "W",
                   "r", "a", "n", "g", "l", "e", "r">>,
       detail_ok |-> FALSE],
      [href |-> <<"/", "w", "i", "k", "i", "/", "S", "o", "n", "g", "_", "o", "f", "_", "t",
                   "h", "e", "_", "W", "e", "l", "k", "i", "n", "_", "M", "o", "o", "n">>,
       text |-> <<"S", "o", "n", "g", " ", "o", "f", " ", "t", "h", "e", " ", "W", "e", "l",
                   "k", "i", "n", " ", "M", "o", "o", "n">>,
       detail_ok |-> FALSE]>>

\* the links scrape_genshin_events takes from the index page: those of the
\* list after the heading, else those that follow the heading, else those of
\* the events table, else the sample
GenshinEventsLinks(index_page) ==
    IF index_page.ul # <<>> THEN index_page.ul
    ELSE IF index_page.following # <<>> THEN index_page.following
    ELSE IF index_page.table # <<>> THEN index_page.table
    ELSE [i \in 1..Len(current_events_sample) |->
             [current_events_sample[i] EXCEPT !.detail_ok = index_page.sample_ok]]

\* requests.get(url) on a URL without an http or https scheme: it raises
\* MissingSchema (InvalidSchema for another scheme) before any request is sent
MissingSchema(url) ==
    /\ ~StartsWith(url, <<"h", "t", "t", "p", ":", "/", "/">>)
    /\ ~StartsWith(url, <<"h", "t", "t", "p", "s", ":", "/", "/">>)

\* event_link of scrape_genshin_events for the href of a link
GenshinEventLink(link_href) ==
    IF StartsWith(link_href, <<"/">>) THEN GenshinBase \o link_href ELSE link_href

\* the links the loop of scrape_genshin_events passes over: without href,
\* without text, or with an href it has processed
GenshinSkipsLink(link, processed_links) ==
    link.href = None \/ link.text = <<>> \/ link.href \in processed_links

\* the record scrape_genshin_events builds for a link: the type is inferred
\* when the detail page is served with status 200
GenshinEventData(link) ==
    LET event_link == GenshinEventLink(link.href)
    IN  JDict(<<Item(Key.name, JStr(link.text)),
                Item(Key.link, JStr(event_link)),
                Item(Key.start_date, JStr(<<>>)),
                Item(Key.end_date, JStr(<<>>)),
                Item(Key.type, JStr(IF ~MissingSchema(event_link) /\ link.detail_ok
                                   THEN GenshinInferEventType(link.text, event_link) ELSE <<>>)),
                Item(Key.reward_list, JDict(<<>>))>>)

RECURSIVE GenshinProcessLinks(_, _, _)
\* the loop of scrape_genshin_events over events_links
GenshinProcessLinks(events_links, processed_links, events_data) ==
    IF events_links = <<>> THEN events_data
    ELSE LET link == Head(events_links)
         IN  IF GenshinSkipsLink(link, processed_links)
             THEN GenshinProcessLinks(Tail(events_links), processed_links, events_data)
             ELSE GenshinProcessLinks(Tail(events_links),
                                      processed_links \cup {link.href},
                                      Append(events_data, GenshinEventData(link)))

RECURSIVE GenshinFinalTraffic(_, _)
\* what the loop of scrape_genshin_events does on the network: the request
\* of the detail page, the request scrape_rewards makes for a page served
\* with status 200, time.sleep(0.5); nothing when requests.get raises
GenshinFinalTraffic(events_links, processed_links) ==
    IF events_links = <<>> THEN <<>>
    ELSE LET link == Head(events_links)
         IN  IF GenshinSkipsLink(link, processed_links)
             THEN GenshinFinalTraffic(Tail(events_links), processed_links)
             ELSE (IF MissingSchema(GenshinEventLink(link.href)) THEN <<>>
                   ELSE IF link.detail_ok THEN <<"request", "request", "sleep">>
                   ELSE <<"request", "sleep">>)
                      \o GenshinFinalTraffic(Tail(events_links), processed_links \cup {link.href})

\* the network traffic of scrape_genshin_events() after the index page
scrape_genshin_events_traffic(index_page) ==
    IF ~index_page.status_ok \/ ~index_page.heading THEN <<>>
    ELSE GenshinFinalTraffic(GenshinEventsLinks(index_page), {})

\* scrape_genshin_events() of genshin_final.py on the index page it fetched:
\* None when the page is not served or has no "Current" heading
scrape_genshin_events(index_page) ==
    IF ~index_page.status_ok \/ ~index_page.heading THEN JNull
    ELSE JList(GenshinProcessLinks(GenshinEventsLinks(index_page), {}, <<>>))

\* the links of the index page that waves_final.py takes for event pages
IsEventHref(href) ==
    /\ IsSubstring(<<"/", "w", "i", "k", "i", "/">>, href)
    /\ ~IsSubstring(<<"C", "a", "t", "e", "g", "o", "r", "y", ":">>, href)
    /\ ~IsSubstring(<<"T", "e", "m", "p", "l", "a", "t", "e", ":">>, href)
    /\ ~IsSubstring(<<"V", "e", "r", "s", "i", "o", "n", "/">>, href)

\* event_link of scrape_waves_events of waves_final.py for the href of a link
WavesFinalEventLink(href) ==
    IF StartsWith(href, <<"/", "w", "i", "k", "i", "/">>) THEN WavesBase \o href ELSE href

\* the links the loop of scrape_waves_events of waves_final.py passes over
WavesFinalSkipsLink(link, processed_links) ==
    \/ link.href = None \/ link.href = <<>> \/ link.text = <<>>
    \/ ~IsEventHref(link.href)
    \/ link.href \in processed_links

\* the detail page of a link is fetched: requests.get returns and the status is 200
WavesFinalFetched(link) == ~MissingSchema(WavesFinalEventLink(link.href)) /\ link.detail_ok

\* the record scrape_waves_events of waves_final.py builds for a link whose
\* detail page was fetched
WavesFinalEventData(link) ==
    LET event_link == WavesFinalEventLink(link.href)
    IN  JDict(<<Item(Key.name, JStr(link.text)),
                Item(Key.link, JStr(event_link)),
                Item(Key.start_date, JStr(<<>>)),
                Item(Key.end_date, JStr(<<>>)),
                Item(Key.type, JStr(WavesInferEventType(link.text, event_link))),
                Item(Key.rewards, JDict(<<>>))>>)

RECURSIVE WavesFinalProcessLinks(_, _, _)
\* the loop of scrape_waves_events of waves_final.py over events_links (the
\* links after the heading that carry a non-empty href)
WavesFinalProcessLinks(events_links, processed_links, events_data) ==
    IF events_links = <<>> THEN events_data
    ELSE LET link == Head(events_links)
         IN  IF WavesFinalSkipsLink(link, processed_links)
             THEN WavesFinalProcessLinks(Tail(events_links), processed_links, events_data)
             ELSE WavesFinalProcessLinks(Tail(events_links),
                                         processed_links \cup {link.href},
                                         IF WavesFinalFetched(link)
                                         THEN Append(events_data, WavesFinalEventData(link))
                                         ELSE events_data)

RECURSIVE WavesFinalTraffic(_, _)
\* what the loop of scrape_waves_events of waves_final.py does on the
\* network: the request of the detail page, the request scrape_rewards makes
\* for a page served with status 200, time.sleep(1)
WavesFinalTraffic(events_links, processed_links) ==
    IF events_links = <<>> THEN <<>>
    ELSE LET link == Head(events_links)
         IN  IF WavesFinalSkipsLink(link, processed_links)
             THEN WavesFinalTraffic(Tail(events_links), processed_links)
             ELSE (IF MissingSchema(WavesFinalEventLink(link.href)) THEN <<>>
                   ELSE IF link.detail_ok THEN <<"request", "request", "sleep">>
                   ELSE <<"request", "sleep">>)
                      \o WavesFinalTraffic(Tail(events_links), processed_links \cup {link.href})

\* the network traffic of scrape_waves_events() of waves_final.py after the
\* index page
WavesFinalEventsTraffic(index_page) ==
    IF ~index_page.status_ok \/ ~index_page.heading THEN <<>>
    ELSE WavesFinalTraffic(index_page.following, {})

\* scrape_waves_events() of waves_final.py on the index page it fetched, before
\* it saves: None when the page is not served or has no "Current" heading
WavesFinalEvents(index_page) ==
    IF ~index_page.status_ok \/ ~index_page.heading THEN JNull
    ELSE JList(WavesFinalProcessLinks(index_page.following, {}, <<>>))

(***************************************************************************)
(* genshin_fixed.py: the event table of the index page.  A row is the      *)
(* number of its cells, the last link of its event cell (found tells       *)
(* whether there is one; its href, None when it has none, its stripped     *)
(* text and its title), the stripped text of its duration cell and of the  *)
(* link of its version cell (None without a link); the event cells of the  *)
(* model hold no image and the texts no runs of blanks.                    *)
(***************************************************************************)
\* the link of a cell without a link
NoLink == [found |-> FALSE, href |-> None, text |-> <<>>, title |-> <<>>]

UnknownEventName == <<"U", "n", "k", "n", "o", "w", "n", " ", "E", "v", "e", "n", "t", " ", "N", "a", "m", "e">>

\* make_absolute_url(relative_url), for a path without a query or fragment
make_absolute_url(relative_url) ==
    IF relative_url = None \/ relative_url = <<>> THEN relative_url
    ELSE IF StartsWith(relative_url, <<"h", "t", "t", "p", ":", "/", "/">>) \/ StartsWith(relative_url, <<"h", "t", "t", "p", "s", ":", "/", "/">>)
    THEN relative_url
    ELSE IF ~StartsWith(relative_url, <<"/">>) THEN GenshinBase \o <<"/">> \o relative_url
    ELSE GenshinBase \o relative_url

\* urljoin(BASE_URL, relative_url) raises ValueError (Invalid IPv6 URL): the
\* host of a //host/path reference holds one square bracket without the other
UrlJoinRaises(relative_url) ==
    /\ StartsWith(relative_url, <<"/", "/">>)
    /\ LET rest   == Slice(relative_url, 3, Len(relative_url))
           stop   == IF Contains(rest, "/")
                     THEN CHOOSE i \in 1..Len(rest) :
                              rest[i] = "/" /\ \A j \in 1..(i - 1) : rest[j] # "/"
                     ELSE Len(rest) + 1
           netloc == Slice(rest, 1, stop - 1)
       IN  Contains(netloc, "[") # Contains(netloc, "]")

\* make_absolute_url(relative_url) raises: the href goes through urljoin
MakeAbsoluteUrlRaises(relative_url) ==
    /\ relative_url # None /\ relative_url # <<>>
    /\ ~StartsWith(relative_url, <<"h", "t", "t", "p", ":", "/", "/">>) /\ ~StartsWith(relative_url, <<"h", "t", "t", "p", "s", ":", "/", "/">>)
    /\ UrlJoinRaises(relative_url)

\* the try block of parse_event_table raises on a row
RowRaises(row) == row.link.found /\ MakeAbsoluteUrlRaises(row.link.href)

\* a str or None as a value of a record
StrOrNull(s) == IF s = None THEN JNull ELSE JStr(s)

\* safe_get_text(element, default), the element given by its stripped text
\* (None when there is no element)
safe_get_text(text, default) == IF text = None \/ text = <<>> THEN default ELSE text

RECURSIVE parse_event_table(_, _)
\* parse_event_table(table_element): the loop over the rows of the tbody
parse_event_table(rows, events) ==
    IF rows = <<>> THEN events
    ELSE LET row  == Head(rows)
             name == safe_get_text((IF ~row.link.found THEN None ELSE row.link.text),
                                   UnknownEventName)
             link == make_absolute_url(IF ~row.link.found THEN None ELSE row.link.href)
             event_data ==
                 JDict(<<Item(Key.name, JStr(name)),
                         Item(Key.link, StrOrNull(link)),
                         Item(Key.image_url, JNull),
                         Item(Key.dates, JStr(safe_get_text(row.dates, <<"D", "a", "t", "e", "s", " ", "n", "o", "t", " ", "f", "o", "u", "n", "d">>))),
                         Item(Key.version, JStr(safe_get_text(row.version, <<"N", "/", "A">>))),
                         Item(Key.rewards, JList(<<>>))>>)
         IN  parse_event_table(Tail(rows),
                 IF row.cells >= 3 /\ ~RowRaises(row) /\ name # UnknownEventName
                 THEN Append(events, event_data) ELSE events)

RECURSIVE GenshinFixedTraffic(_)
\* what parse_event_table does on the network: scrape_event_rewards of a row
\* with a link sleeps DETAIL_PAGE_DELAY and requests the detail page
GenshinFixedTraffic(rows) ==
    IF rows = <<>> THEN <<>>
    ELSE LET row == Head(rows)
         IN  (IF /\ row.cells >= 3 /\ ~RowRaises(row)
                 /\ Truthy(make_absolute_url(IF ~row.link.found THEN None ELSE row.link.href))
              THEN <<"sleep", "request">> ELSE <<>>)
                 \o GenshinFixedTraffic(Tail(rows))

\* scrape_genshin_impact_events(url) on the index page it fetched
scrape_genshin_impact_events(index_page) ==
    IF ~index_page.status_ok \/ ~index_page.heading THEN JList(<<>>)
    ELSE IF index_page.table /\ index_page.tbody
    THEN JList(parse_event_table(index_page.rows, <<>>))
    ELSE JList(<<>>)

\* the network traffic of scrape_genshin_impact_events(url) after the index page
scrape_genshin_impact_events_traffic(index_page) ==
    IF index_page.status_ok /\ index_page.heading /\ index_page.table /\ index_page.tbody
    THEN GenshinFixedTraffic(index_page.rows)
    ELSE <<>>

(***************************************************************************)
(* waves_fixed.py: the events table of the index page and of the template  *)
(* file.  A row is the number of its cells, the first link of its event    *)
(* cell, the stripped text of the event cell and its duration cell.        *)
(***************************************************************************)
\* waves_template.txt when it cannot be read
NoTemplate == [readable |-> FALSE, table |-> FALSE, rows |-> <<>>]

\* the record of a row after validate_and_format_dates
WavesEventData(event_name, event_link, dates, type) ==
    LET Record(event_data) ==
            JDict(<<Item(Key.name, JStr(event_data.name)),
                    Item(Key.link, StrOrNull(event_link)),
                    Item(Key.start_date, JStr(event_data.start_date)),
                    Item(Key.end_date, JStr(event_data.end_date)),
                    Item(Key.type, JStr(type)),
                    Item(Key.rewards, JDict(<<>>))>>)
    IN  Record(validate_and_format_dates(
                   [name |-> event_name, start_date |-> dates.start_date,
                    end_date |-> dates.end_date]))

RECURSIVE WavesTableEvents(_, _)
\* the loop of scrape_waves_events over the rows of the current events
\* table; raised: a row made it raise (a link without href)
WavesTableEvents(rows, events) ==
    IF rows = <<>> THEN [raised |-> FALSE, events |-> events]
    ELSE LET row == Head(rows)
             event_name == IF row.link.found /\ row.link.text # <<>> THEN row.link.text
                           ELSE IF row.link.found /\ row.link.title # <<>> THEN row.link.title
                           ELSE row.cell_text
             event_link == IF ~row.link.found THEN None ELSE WavesBase \o row.link.href
             cell_dates == extract_dates_from_duration_cell(row.duration_cell)
             dates      == ProcessDates(cell_dates.start_date, cell_dates.end_date)
         IN  IF row.cells < 2 THEN WavesTableEvents(Tail(rows), events)
             ELSE IF row.link.found /\ row.link.href = None
             THEN [raised |-> TRUE, events |-> events]
             ELSE WavesTableEvents(Tail(rows),
                      Append(events, WavesEventData(event_name, event_link, dates, <<>>)))

\* the loop over the rows of the current events table raises: a row of two
\* cells whose link has no href
WavesTableRaises(rows) ==
    \E i \in 1..Len(rows) : rows[i].cells >= 2 /\ rows[i].link.found /\ rows[i].link.href = None

RECURSIVE WavesTableTraffic(_)
\* what the loop over the rows of the current events table does on the
\* network: the request of the detail page of a row with a link, up to the
\* row that makes the loop raise
WavesTableTraffic(rows) ==
    IF rows = <<>> THEN <<>>
    ELSE LET row == Head(rows)
         IN  IF row.cells < 2 THEN WavesTableTraffic(Tail(rows))
             ELSE IF row.link.found /\ row.link.href = None THEN <<>>
             ELSE (IF row.link.found THEN <<"request">> ELSE <<>>)
                      \o WavesTableTraffic(Tail(rows))

RECURSIVE TemplateDatesFrom(_, _)
\* re.findall of (\d{4}-\d{2}-\d{2}\s+\d{2}:\d{2}|\d{4}-\d{2}-\d{2}) from index i on
TemplateDatesFrom(s, i) ==
    IF i > Len(s) THEN <<>>
    ELSE LET timestamp == MatchFrom(s, i, TimestampPattern, 1)
             date      == MatchFrom(s, i, HyphenDatePattern, 1)
             m         == IF timestamp # <<>> THEN timestamp ELSE date
         IN  IF m = <<>> THEN TemplateDatesFrom(s, i + 1)
             ELSE <<Slice(s, i, m[Len(m)] - 1)>> \o TemplateDatesFrom(s, m[Len(m)])

\* the dates parse_template_file reads from a duration cell
TemplateCellDates(duration_cell) ==
    LET dates == IF duration_cell.data_sort_value = None THEN <<>>
                 ELSE TemplateDatesFrom(duration_cell.data_sort_value, 1)
        match == Search(duration_cell.text, RangePattern1)
    IN  IF Len(dates) >= 2 /\ dates[1] # <<>> /\ dates[2] # <<>>
        THEN [start_date |-> dates[2], end_date |-> dates[1]]
        ELSE IF match # <<>>
        THEN [start_date |-> Group(duration_cell.text, match, 1, 6),
              end_date   |-> Group(duration_cell.text, match, 10, 15)]
        ELSE [start_date |-> None, end_date |-> None]

\* the name parse_template_file gives a row: "Event/2025-02-12" becomes
\* "Event 2025-02-12"
TemplateEventName(event_name) ==
    LET slash == LastIndexOf(event_name, "/")
        first == CHOOSE i \in 1..Len(event_name) :
                     event_name[i] = "/" /\ \A j \in 1..(i - 1) : event_name[j] # "/"
        last  == Slice(event_name, slash + 1, Len(event_name))
    IN  IF slash > 0 /\ Len(last) = 10 /\ MatchFrom(last, 1, HyphenDatePattern, 1) # <<>>
        THEN Slice(event_name, 1, first - 1) \o <<" ">> \o last
        ELSE event_name

ApexRagunna == <<"A", "p", "e", "x", " ", "R", "a", "g", "u", "n", "n", "a">>

RECURSIVE TemplateEvents(_, _)
\* the loop of parse_template_file over the rows of the table of the
\* template (its links carry an href)
TemplateEvents(rows, events) ==
    IF rows = <<>> THEN events
    ELSE LET row == Head(rows)
             raw_name   == IF row.link.found /\ row.link.title # <<>> THEN row.link.title
                           ELSE IF row.link.found /\ row.link.text # <<>> THEN row.link.text
                           ELSE row.cell_text
             event_name == TemplateEventName(raw_name)
             event_link == IF ~row.link.found THEN None ELSE WavesBase \o row.link.href
             data_sort_value == row.duration_cell.data_sort_value
             dates      == IF /\ IsSubstring(ApexRagunna, event_name)
                              /\ data_sort_value # None
                              /\ IsSubstring(<<"2", "0", "2", "5", "-", "0", "3", "-", "1", "0">>, data_sort_value)
                              /\ IsSubstring(<<"2", "0", "2", "5", "-", "0", "2", "-", "2", "0">>, data_sort_value)
                           THEN [start_date |-> <<"2", "0", "2", "5", "-", "0", "2", "-", "2", "0", " ", "1", "0", ":", "0", "0">>,
                                 end_date   |-> <<"2", "0", "2", "5", "-", "0", "3", "-", "1", "0", " ", "0", "3", ":", "5", "9">>]
                           ELSE TemplateCellDates(row.duration_cell)
         IN  TemplateEvents(Tail(rows),
                 IF row.cells >= 2
                 THEN Append(events, WavesEventData(event_name, event_link, dates, InGame))
                 ELSE events)

\* parse_template_file(): template is waves_template.txt, whether it can be
\* read, whether it holds a table, and the rows after the header row
parse_template_file(template) ==
    IF ~template.readable THEN <<>>
    ELSE IF ~template.table THEN <<>>
    ELSE TemplateEvents(template.rows, <<>>)

RECURSIVE TemplateTraffic(_)
\* what the loop of parse_template_file does on the network: the request of
\* the detail page of a row with a link
TemplateTraffic(rows) ==
    IF rows = <<>> THEN <<>>
    ELSE (IF Head(rows).cells >= 2 /\ Head(rows).link.found THEN <<"request">> ELSE <<>>)
             \o TemplateTraffic(Tail(rows))

\* the network traffic of parse_template_file()
parse_template_file_traffic(template) ==
    IF template.readable /\ template.table THEN TemplateTraffic(template.rows) ELSE <<>>

\* the network traffic of scrape_waves_events of waves_fixed.py after the
\* index page
WavesFixedTraffic(index_page, template) ==
    IF index_page.status_ok /\ index_page.heading /\ index_page.table
    THEN WavesTableTraffic(index_page.rows)
             \o (IF WavesTableRaises(index_page.rows)
                 THEN parse_template_file_traffic(template) ELSE <<>>)
    ELSE parse_template_file_traffic(template)

\* the events scrape_waves_events of waves_fixed.py returns and saves
WavesFixedEvents(index_page, template) ==
    IF index_page.status_ok /\ index_page.heading /\ index_page.table
    THEN LET table == WavesTableEvents(index_page.rows, <<>>)
         IN  IF table.raised THEN JList(parse_template_file(template))
             ELSE JList(table.events)
    ELSE JList(parse_template_file(template))

(***************************************************************************)
(* The snapshot files.  The directory is a function from file names to the *)
(* text of the file, None for a file that does not exist.                  *)
(***************************************************************************)
FileNames ==
    {"genshin_combined.json", "genshin_impact_current_events.json", "waves_events.json",
     "wuthering_waves_current_events.json"}

\* the indent of the snapshot files, and of the one genshin_fixed.py writes
indent == 4

OutputIndent == 2

\* open(filename, 'w') and json.dump(data, f, indent=width, ensure_ascii=False)
WriteJson(files, filename, data, width) == [files EXCEPT ![filename] = JsonDumps(data, width)]

\* save_to_json(data, filename) of genshin_final.py and waves_final.py
save_to_json(files, data, filename) == WriteJson(files, filename, data, indent)

\* save_events_to_json(data, filename) of waves_fixed.py
save_events_to_json(files, data, filename) == WriteJson(files, filename, data, indent)

\* bool(data) for what a scraper returns: None or a list
NonEmpty(data) == data.t = "list" /\ data.items # <<>>

\* open(file_path) and json.load(f): raised tells that it raised
ReadJson(files, file_path) ==
    IF files[file_path] = None THEN [raised |-> TRUE, value |-> JNull]
    ELSE LET decoded == JsonLoads(files[file_path])
         IN  IF decoded.ok THEN [raised |-> FALSE, value |-> decoded.v]
             ELSE [raised |-> TRUE, value |-> JNull]

\* ExceptReturnEmpty without the except clause: the exception goes on
ExceptReturnEmpty_Reraise(outcome) == outcome

\* except Exception: return []
ExceptReturnEmpty(outcome) ==
    IF outcome.raised THEN [raised |-> FALSE, value |-> JList(<<>>)] ELSE outcome

\* load_events() of discord_bot.py
DiscordBotLoadEvents(files) == ExceptReturnEmpty(ReadJson(files, "genshin_combined.json"))

\* the file load_events of discord_bot_updated.py reads for a game type
EventsFile(game_type) ==
    IF LowerStr(game_type) = <<"g", "e", "n", "s", "h", "i", "n">> THEN "genshin_combined.json"
    ELSE "wuthering_waves_current_events.json"

\* load_events(game_type) of discord_bot_updated.py; game_type None stands
\* for an argument that is not a str, on which .lower() raises
load_events(files, game_type) ==
    ExceptReturnEmpty(IF game_type = None THEN [raised |-> TRUE, value |-> JNull]
                      ELSE ReadJson(files, EventsFile(game_type)))

(***************************************************************************)
(* The bot's refresh command.  The bot runs its handlers on one event-loop *)
(* thread: a handler runs when the thread is free, and a coroutine that    *)
(* awaits gives the thread back.                                           *)
(***************************************************************************)
\* the scraper scripts refresh_events runs, in order
ScraperScripts(program) ==
    IF program = "discord_bot" THEN <<"genshin_final.py", "waves_fixed.py">>
    ELSE <<"waves_fixed.py">>

\* run_scraper waits for the scraper process in subprocess.run, on the
\* event-loop thread (discord_bot.py), or awaits process.communicate()
\* (discord_bot_updated.py)
HoldsThread(program) == program = "discord_bot"

\* what run_scraper(file_path) returns: True when the process was started
\* and its return code is 0
RunScraperResult(started, returncode) == started /\ returncode = 0

\* what a scraper script that runs to its end leaves in the directory, for
\* the events it scraped
ScriptWrites(files, file_path, events_data) ==
    IF file_path = "genshin_final.py"
    THEN (IF NonEmpty(events_data)
          THEN save_to_json(files, events_data, "genshin_combined.json") ELSE files)
    ELSE save_events_to_json(files, events_data, "waves_events.json")

\* the last message of refresh_events, after the calls of run_scraper in runs
RefreshReport(program, runs, files) ==
    IF program = "discord_bot"
    THEN IF \E i \in 1..Len(runs) : ~runs[i].success THEN "error"
         ELSE IF ~NonEmpty(DiscordBotLoadEvents(files).value) THEN "no events"
         ELSE "success"
    ELSE IF runs[1].success THEN "success" ELSE "issues"

(***************************************************************************)
(* genshin_fixed.py, parse_quantity.  The multiplication sign is the one   *)
(* character "times".                                                      *)
(***************************************************************************)
Times == "times"

\* s.strip()
Strip(s) ==
    IF \A i \in 1..Len(s) : s[i] = " " THEN <<>>
    ELSE LET first == CHOOSE i \in 1..Len(s) : s[i] # " " /\ \A j \in 1..(i - 1) : s[j] = " "
             last == CHOOSE i \in 1..Len(s) : s[i] # " " /\ \A j \in (i + 1)..Len(s) : s[j] = " "
         IN  SubSeq(s, first, last)

\* int(s): an optional sign and decimal digits, blanks around them allowed;
\* ok is FALSE for ValueError
IntOf(s) ==
    LET Signed(t) ==
            IF t # <<>> /\ Head(t) \in {"+", "-"}
            THEN IF IsInt(Tail(t))
                 THEN [ok |-> TRUE, n |-> IF Head(t) = "-" THEN 0 - NumVal(Tail(t)) ELSE NumVal(Tail(t))]
                 ELSE [ok |-> FALSE, n |-> 0]
            ELSE IF IsInt(t) THEN [ok |-> TRUE, n |-> NumVal(t)] ELSE [ok |-> FALSE, n |-> 0]
    IN  Signed(Strip(s))

\* parse_quantity(text)
parse_quantity(text) ==
    IF text = None \/ text = <<>> THEN 1
    ELSE LET Parsed(cleaned_text) == IF IntOf(cleaned_text).ok THEN IntOf(cleaned_text).n ELSE 1
         IN  Parsed(Strip(Remove(Remove(LowerStr(text), "x"), ",")))

(***************************************************************************)
(* discord_bot_updated.py, extract_dates_from_string.  The file spells the *)
(* en-dash of its separators as the three characters U+201A, U+00C4 and    *)
(* U+00EC, each one character here.                                        *)
(***************************************************************************)
SpelledDash == <<"U+201A", "U+00C4", "U+00EC">>

\* the separators of extract_dates_from_string, in the order they are tried
date_separators ==
    <<<<" ">> \o SpelledDash \o <<" ">>, <<" ", "-", " ">>, <<" ", "t", "o", " ">>, <<"-">>,
      SpelledDash>>

\* s.find(sub), counted from 1; 0 when sub does not occur
Find(s, sub) ==
    IF IsSubstring(sub, s)
    THEN CHOOSE i \in 1..Len(s) :
             /\ i + Len(sub) - 1 <= Len(s) /\ SubSeq(s, i, i + Len(sub) - 1) = sub
             /\ \A j \in 1..(i - 1) : SubSeq(s, j, j + Len(sub) - 1) # sub
    ELSE 0

\* dateutil's parser.parse(timestr) for the texts of the model: a full date
\* "YYYY-MM-DD", "YYYY/MM/DD" or "Month D, YYYY", with or without "HH:MM",
\* gives that date-time; a text with a word that is no month name, the empty
\* text and a value that is no str raise (ok is FALSE)
ParserParse(timestr) ==
    IF timestr = None \/ timestr = Missing THEN ValueError ELSE ParseAnyFormat(timestr)

\* extract_dates_from_string(date_range_str)
extract_dates_from_string(date_range_str) ==
    LET Formatted(start_date, end_date) ==
            IF start_date.ok /\ end_date.ok
            THEN [start_date |-> StrftimeDate(start_date), end_date |-> StrftimeDate(end_date)]
            ELSE [start_date |-> None, end_date |-> None]
        Split(separator, at) ==
            Formatted(ParserParse(Strip(Slice(date_range_str, 1, at - 1))),
                      ParserParse(Strip(Slice(date_range_str, at + Len(separator),
                                              Len(date_range_str)))))
        SplitAtFirst(present) ==
            IF present # <<>>
            THEN Split(present[1], Find(date_range_str, present[1]))
            ELSE Formatted(ParserParse(Strip(date_range_str)), ParserParse(Strip(date_range_str)))
    IN  IF date_range_str = None \/ date_range_str = Missing
        THEN [start_date |-> None, end_date |-> None]
        ELSE SplitAtFirst(SelectSeq(date_separators,
                                    LAMBDA separator : IsSubstring(separator, date_range_str)))

(***************************************************************************)
(* extract_dates_from_text and extract_dates_from_infobox (waves_fixed.py, *)
(* waves_final.py).  An infobox is the sequence of its rows, a row the     *)
(* text of its label element and the text of its data element.             *)
(***************************************************************************)
\* the patterns of extract_dates_from_text, in the order they are searched
SlashDatePattern == <<Rep(Digit, 4), Lit("/"), Rep(Digit, 2), Lit("/"), Rep(Digit, 2)>>

TextDatePattern ==
    <<Rep(Upper, 1), Plus(Lower), Lit(" "), El(Digit, 1, 2), Lit(","), Lit(" "), Rep(Digit, 4)>>

date_patterns ==
    <<SlashDatePattern \o <<Lit(" ")>> \o TimePattern,
      HyphenDatePattern \o <<Lit(" ")>> \o TimePattern,
      SlashDatePattern,
      HyphenDatePattern,
      TextDatePattern>>

\* extract_dates_from_text(text)
extract_dates_from_text(text) ==
    Findall(text, date_patterns[1]) \o Findall(text, date_patterns[2])
        \o Findall(text, date_patterns[3]) \o Findall(text, date_patterns[4])
        \o Findall(text, date_patterns[5])

\* the terms that make a row of the infobox a duration row (waves_fixed.py)
duration_terms ==
    {<<"d", "u", "r", "a", "t", "i", "o", "n">>, <<"p", "e", "r", "i", "o", "d">>,
     <<"d", "a", "t", "e">>, <<"t", "i", "m", "e">>, <<"s", "t", "a", "r", "t">>,
     <<"e", "n", "d">>, <<"a", "v", "a", "i", "l", "a", "b", "l", "e">>}

\* the terms that make a single date the end date (waves_fixed.py)
end_terms ==
    {<<"e", "n", "d">>, <<"u", "n", "t", "i", "l">>, <<"d", "e", "a", "d", "l", "i", "n", "e">>}

Until == <<"u", "n", "t", "i", "l">>

\* row.get_text().lower()
RowText(row) == LowerStr(row.label \o <<" ">> \o row.data)

\* datetime.strptime(date, "%Y/%m/%d %H:%M") if " " in date else
\* datetime.strptime(date, "%Y/%m/%d")
StrptimeSlash(date) ==
    IF Contains(date, " ") THEN StrptimeDateTime(date, "/") ELSE StrptimeDate(date, "/")

\* what a call of extract_dates_from_infobox leaves: the mapping it built,
\* whether it raised, and the text and the result of its last call of
\* extract_dates_from_text
InfoboxOutcome(result, raised, text, dates) ==
    [result |-> result, raised |-> raised, date_text |-> text, dates |-> dates]

NoDates == [start_date |-> <<>>, end_date |-> <<>>]

RECURSIVE WavesFixedInfoboxRows(_, _)
\* the loop over the rows of extract_dates_from_infobox of waves_fixed.py
WavesFixedInfoboxRows(rows, outcome) ==
    LET TwoDates(row_text, dates, first_date, second_date) ==
            IF ~first_date.ok \/ ~second_date.ok
            THEN InfoboxOutcome(outcome.result, TRUE, row_text, dates)
            ELSE IF ~DtLess(second_date, first_date)
            THEN InfoboxOutcome([start_date |-> dates[1], end_date |-> dates[2]], FALSE,
                                row_text, dates)
            ELSE InfoboxOutcome([start_date |-> dates[2], end_date |-> dates[1]], FALSE,
                                row_text, dates)
        OneDate(row_text, dates) ==
            IF \E term \in end_terms : IsSubstring(term, row_text)
            THEN InfoboxOutcome([outcome.result EXCEPT !.end_date = dates[1]], FALSE,
                                row_text, dates)
            ELSE InfoboxOutcome([outcome.result EXCEPT !.start_date = dates[1]], FALSE,
                                row_text, dates)
        Row(row_text, dates) ==
            IF Len(dates) >= 2
            THEN TwoDates(row_text, dates, StrptimeSlash(dates[1]), StrptimeSlash(dates[2]))
            ELSE IF Len(dates) = 1
            THEN WavesFixedInfoboxRows(Tail(rows), OneDate(row_text, dates))
            ELSE WavesFixedInfoboxRows(Tail(rows),
                                       InfoboxOutcome(outcome.result, FALSE, row_text, dates))
    IN  IF rows = <<>> THEN outcome
        ELSE IF \E term \in duration_terms : IsSubstring(term, RowText(Head(rows)))
        THEN Row(RowText(Head(rows)), extract_dates_from_text(RowText(Head(rows))))
        ELSE WavesFixedInfoboxRows(Tail(rows), outcome)

\* extract_dates_from_infobox(infobox) of waves_fixed.py
WavesFixedInfoboxDates(infobox) ==
    WavesFixedInfoboxRows(infobox, InfoboxOutcome(NoDates, FALSE, <<>>, <<>>))

\* the labels extract_dates_from_infobox of waves_final.py looks for
duration_labels ==
    <<<<"d", "u", "r", "a", "t", "i", "o", "n">>,
      <<"e", "v", "e", "n", "t", " ", "p", "e", "r", "i", "o", "d">>,
      <<"t", "i", "m", "e">>>>

RECURSIVE WavesFinalInfoboxLabels(_, _, _)
\* the loop over the labels of extract_dates_from_infobox of waves_final.py
WavesFinalInfoboxLabels(infobox, labels, outcome) ==
    LET Found(date_text, dates) ==
            IF Len(dates) >= 2
            THEN InfoboxOutcome([start_date |-> dates[1], end_date |-> dates[2]], FALSE,
                                date_text, dates)
            ELSE IF Len(dates) = 1
            THEN IF IsSubstring(Until, LowerStr(date_text))
                 THEN InfoboxOutcome([NoDates EXCEPT !.end_date = dates[1]], FALSE, date_text, dates)
                 ELSE InfoboxOutcome([NoDates EXCEPT !.start_date = dates[1]], FALSE, date_text, dates)
            ELSE WavesFinalInfoboxLabels(infobox, Tail(labels),
                                         InfoboxOutcome(NoDates, FALSE, date_text, dates))
        Labelled(matching) ==
            IF matching = <<>>
            THEN WavesFinalInfoboxLabels(infobox, Tail(labels), outcome)
            ELSE Found(Strip(matching[1].data), extract_dates_from_text(Strip(matching[1].data)))
    IN  IF labels = <<>> THEN outcome
        ELSE Labelled(SelectSeq(infobox,
                                LAMBDA row : IsSubstring(Head(labels), LowerStr(row.label))))

\* extract_dates_from_infobox(infobox) of waves_final.py
WavesFinalInfoboxDates(infobox) ==
    IF infobox = <<>> THEN InfoboxOutcome(NoDates, FALSE, <<>>, <<>>)
    ELSE WavesFinalInfoboxLabels(infobox, duration_labels,
                                 InfoboxOutcome(NoDates, FALSE, <<>>, <<>>))

(***************************************************************************)
(* genshin_fixed.py, scrape_event_rewards.  A detail page is whether it is *)
(* served, which of the three header searches would find a rewards header  *)
(* (a span with a known id, and whether it is inside a header; a header    *)
(* with a known id; a header with a known text), the reward items after    *)
(* that header and the items elsewhere on the page.  An item is the text   *)
(* of its caption link and the text of its card-text span (None when it    *)
(* has none).                                                              *)
(***************************************************************************)
\* the reward strings of the items, one per distinct content
RECURSIVE RewardStringsOf(_, _, _)
RewardStringsOf(reward_items_found, processed_items_content, rewards_list_of_strings) ==
    LET Processed(item) ==
            RewardStringsOf(Tail(reward_items_found), processed_items_content \cup {item},
                            rewards_list_of_strings
                                \o <<item.name \o <<":">> \o Dec(parse_quantity(item.qty))>>)
    IN  IF reward_items_found = <<>> THEN rewards_list_of_strings
        ELSE IF Head(reward_items_found) \in processed_items_content
        THEN RewardStringsOf(Tail(reward_items_found), processed_items_content,
                             rewards_list_of_strings)
        ELSE Processed(Head(reward_items_found))

\* the first search of the header finds the span: parent_header is bound
ParentHeaderBound(detail_page) == detail_page.span_id

\* one of the three searches finds a rewards header
RewardsHeaderFound(detail_page) ==
    \/ detail_page.span_id /\ detail_page.span_in_header
    \/ detail_page.header_id
    \/ detail_page.header_text

\* scrape_event_rewards(detail_url): the request that fails and the name
\* parent_header that is not bound are caught, and the empty list returned
scrape_event_rewards(detail_page) ==
    IF ~detail_page.fetched THEN <<>>
    ELSE IF ~ParentHeaderBound(detail_page) THEN <<>>
    ELSE IF RewardsHeaderFound(detail_page)
    THEN RewardStringsOf(detail_page.after, {}, <<>>)
    ELSE RewardStringsOf(detail_page.elsewhere \o detail_page.after, {}, <<>>)

(***************************************************************************)
(* The bot's display of the events (discord_bot.py,                        *)
(* discord_bot_updated.py).  A snapshot is the list load_events returned,  *)
(* an event a dict of the snapshot; today is the date of                   *)
(* datetime.datetime.now().                                                *)
(***************************************************************************)
ALERT_DAYS_THRESHOLD == 3

\* the number of fields after which the handlers start a new embed
EmbedFieldLimit == 25

\* event[key]: raised is TRUE for KeyError
Subscript(event, key) ==
    IF DictHas(event.items, key) THEN [raised |-> FALSE, v |-> DictGet(event.items, key)]
    ELSE [raised |-> TRUE, v |-> JNull]

\* the str of a value of the snapshot, None for a value that is no str
StrOf(v) == IF v.t = "str" THEN v.s ELSE None

\* event.get(key, '')
GetOrBlank(event, key) ==
    IF DictHas(event.items, key) THEN StrOf(DictGet(event.items, key)) ELSE <<>>

RECURSIVE DaysBeforeMonth(_, _)
\* the days of the year y before its month mo
DaysBeforeMonth(y, mo) == IF mo <= 1 THEN 0 ELSE DaysBeforeMonth(y, mo - 1) + DaysInMonth(y, mo - 1)

\* date.toordinal()
Ordinal(dt) ==
    365 * (dt.y - 1) + ((dt.y - 1) \div 4) - ((dt.y - 1) \div 100) + ((dt.y - 1) \div 400)
        + DaysBeforeMonth(dt.y, dt.mo) + dt.d

\* today at 00:00
Midnight(today) == [ok |-> TRUE, y |-> today.y, mo |-> today.mo, d |-> today.d, h |-> 0, mi |-> 0]

\* datetime.datetime(2099, 12, 31)
FarFuture == [ok |-> TRUE, y |-> 2099, mo |-> 12, d |-> 31, h |-> 0, mi |-> 0]

\* get_days_remaining(date_str): known is FALSE for None
get_days_remaining(date_str, today) ==
    LET Remaining(end_date) ==
            IF ~end_date.ok THEN [known |-> FALSE, days |-> 0]
            ELSE IF Ordinal(end_date) - Ordinal(today) > 0
            THEN [known |-> TRUE, days |-> Ordinal(end_date) - Ordinal(today)]
            ELSE [known |-> TRUE, days |-> 0]
    IN  Remaining(ParserParse(date_str))

\* days_left is not None and days_left <= ALERT_DAYS_THRESHOLD, also for a
\* deadline that is not known
DeadlineApproaches_Unknown(days_left) == ~days_left.known \/ days_left.days <= ALERT_DAYS_THRESHOLD

\* days_left is not None and days_left <= ALERT_DAYS_THRESHOLD
DeadlineApproaches(days_left) == days_left.known /\ days_left.days <= ALERT_DAYS_THRESHOLD

\* the filter of get_formatted_events of discord_bot.py keeps the event
DiscordBotKeeps(event, today) ==
    LET Kept(end_date) == ~end_date.ok \/ ~DtLess(end_date, Midnight(today))
    IN  IF Subscript(event, Key.end_date).raised THEN TRUE
        ELSE Kept(ParserParse(StrOf(Subscript(event, Key.end_date).v)))

\* the filter of get_formatted_events("genshin") of discord_bot_updated.py
\* keeps the event
GenshinKeeps(event, today) ==
    LET Kept(start_date, end_date) ==
            \/ ~start_date.ok \/ ~end_date.ok
            \/ IF DtLess(end_date, start_date) THEN ~DtLess(start_date, Midnight(today))
               ELSE ~DtLess(end_date, Midnight(today))
    IN  IF Subscript(event, Key.start_date).raised \/ Subscript(event, Key.end_date).raised
        THEN TRUE
        ELSE Kept(ParserParse(StrOf(Subscript(event, Key.start_date).v)),
                  ParserParse(StrOf(Subscript(event, Key.end_date).v)))

\* what the filter of get_formatted_events("waves") appends for the event:
\* nothing, the event, or a copy with start_date and end_date set
WavesKept(event, today) ==
    LET Copy(dates) ==
            JDict(DictPut(DictPut(event.items, Key.start_date, JStr(dates.start_date)),
                          Key.end_date, JStr(dates.end_date)))
        Kept(dates) ==
            IF dates.end_date = None THEN <<event>>
            ELSE IF ~DtLess(ParserParse(dates.end_date), Midnight(today)) THEN <<Copy(dates)>>
            ELSE <<>>
    IN  IF Subscript(event, Key.dates).raised THEN <<event>>
        ELSE Kept(extract_dates_from_string(StrOf(Subscript(event, Key.dates).v)))

RECURSIVE ActiveEvents(_, _, _)
\* the loop of get_formatted_events that filters out the events that ended
ActiveEvents(program, events, today) ==
    IF events = <<>> THEN <<>>
    ELSE (IF program = "discord_bot"
          THEN (IF DiscordBotKeeps(Head(events), today) THEN <<Head(events)>> ELSE <<>>)
          ELSE IF program = "genshin"
          THEN (IF GenshinKeeps(Head(events), today) THEN <<Head(events)>> ELSE <<>>)
          ELSE WavesKept(Head(events), today))
             \o ActiveEvents(program, Tail(events), today)

\* the key of the sort of discord_bot.py: parser.parse(x['end_date'])
DiscordBotSortKey(event) ==
    IF Subscript(event, Key.end_date).raised THEN ValueError
    ELSE ParserParse(StrOf(Subscript(event, Key.end_date).v))

\* safe_parse_date(event) of discord_bot_updated.py
safe_parse_date(event, game_type) ==
    LET OrFarFuture(parsed) == IF parsed.ok THEN parsed ELSE FarFuture
    IN  OrFarFuture(ParserParse(IF game_type = "genshin" \/ DictHas(event.items, Key.end_date)
                                THEN GetOrBlank(event, Key.end_date)
                                ELSE GetOrBlank(event, Key.dates)))

RECURSIVE SortedBy(_, _)
\* list.sort(key=...): the stable sort of the events by their keys
SortedBy(events, keys) ==
    LET Without(s, i) == SubSeq(s, 1, i - 1) \o SubSeq(s, i + 1, Len(s))
        From(first) ==
            <<events[first]>> \o SortedBy(Without(events, first), Without(keys, first))
    IN  IF events = <<>> THEN <<>>
        ELSE From(CHOOSE i \in 1..Len(events) :
                      /\ \A j \in 1..Len(events) : ~DtLess(keys[j], keys[i])
                      /\ \A j \in 1..(i - 1) : DtLess(keys[i], keys[j]))

RECURSIVE SortKeys(_, _, _)
\* the keys of the events, each computed once
SortKeys(program, game_type, events) ==
    IF events = <<>> THEN <<>>
    ELSE <<IF program = "discord_bot" THEN DiscordBotSortKey(Head(events))
           ELSE safe_parse_date(Head(events), game_type)>>
             \o SortKeys(program, game_type, Tail(events))

\* the sort of discord_bot.py: a key that raises leaves the list as it is
DiscordBotSort(active_events) ==
    LET Sort(keys) ==
            IF \E i \in 1..Len(keys) : ~keys[i].ok THEN active_events
            ELSE SortedBy(active_events, keys)
    IN  Sort(SortKeys("discord_bot", "genshin", active_events))

\* get_formatted_events() of discord_bot.py, get_formatted_events(game_type)
\* of discord_bot_updated.py
get_formatted_events(program, game_type, events, today) ==
    LET Sort(active_events) ==
            IF program = "discord_bot" THEN DiscordBotSort(active_events)
            ELSE SortedBy(active_events, SortKeys(program, game_type, active_events))
    IN  Sort(ActiveEvents(IF program = "discord_bot" THEN program ELSE game_type, events, today))

\* the warning sign of the names of the events that end soon, as each file
\* spells it, one character here
WarningSign == <<"warning">>

\* f"{value}" for the values of the model's snapshots: a str, an int, None
FStr(v) == IF v.t = "str" THEN v.s ELSE IF v.t = "int" THEN Dec(v.n) ELSE None

\* bool(value) for a value of a snapshot
IsTruthy(v) ==
    IF v.t = "str" THEN v.s # <<>>
    ELSE IF v.t = "int" THEN v.n # 0
    ELSE IF v.t \in {"list", "dict"} THEN v.items # <<>>
    ELSE FALSE

\* the reward dict of a snapshot as format_rewards reads it
RewardItemsOf(v) ==
    [i \in 1..Len(v.items) |->
        [k |-> v.items[i].k,
         v |-> IF v.items[i].v.t = "int" THEN PyInt(v.items[i].v.n) ELSE PyStr(FStr(v.items[i].v))]]

\* format_rewards(reward_list) of discord_bot.py: raised is TRUE for a
\* reward_list without keys() (a list, a str)
DiscordBotFormatRewards(reward_list) ==
    IF ~IsTruthy(reward_list) THEN [raised |-> FALSE, text |-> NoRewardInformation]
    ELSE IF reward_list.t # "dict" THEN [raised |-> TRUE, text |-> <<>>]
    ELSE [raised |-> FALSE,
          text |-> Join(FormattedRewards(RewardItemsOf(reward_list), <<Primogem, Mora>>), <<"\n">>)]

\* format_rewards(reward_data) of discord_bot_updated.py on a value of a
\* snapshot: a dict, a list of str, a str or None
UpdatedFormatRewards(reward_data) ==
    format_rewards(
        IF reward_data.t = "dict"
        THEN RewardArgument("dict", <<>>, RewardItemsOf(reward_data), <<>>)
        ELSE IF reward_data.t = "list"
        THEN RewardArgument("list", [i \in 1..Len(reward_data.items) |-> FStr(reward_data.items[i])],
                            <<>>, <<>>)
        ELSE IF reward_data.t = "str" THEN RewardArgument("str", <<>>, <<>>, reward_data.s)
        ELSE RewardArgument("NoneType", <<>>, <<>>, <<>>))

\* f"{days_left} days left" if days_left is not None else "Date unknown"
DaysText(days_left) ==
    IF days_left.known THEN Dec(days_left.days) \o <<" ", "d", "a", "y", "s", " ", "l", "e", "f", "t">> ELSE <<"D", "a", "t", "e", " ", "u", "n", "k", "n", "o", "w", "n">>

\* the name of the field of an event
FieldName(event_name, days_left) ==
    IF DeadlineApproaches(days_left)
    THEN WarningSign \o <<" ">> \o event_name \o <<" ">> \o WarningSign
    ELSE event_name

\* the rewards section of the value of a field; raised when format_rewards
\* raises
RewardsSection(program, event) ==
    LET Section(formatted) ==
            [raised |-> formatted.raised,
             text |-> IF formatted.raised THEN <<>>
                      ELSE <<"\n", "*", "*", "R", "e", "w", "a", "r", "d", "s", ":", "*", "*", "\n">> \o formatted.text \o <<"\n">>]
        reward_key == IF program = "discord_bot" \/ DictHas(event.items, Key.reward_list)
                      THEN Key.reward_list ELSE Key.rewards
    IN  IF ~DictHas(event.items, reward_key) \/ ~IsTruthy(DictGet(event.items, reward_key))
        THEN [raised |-> FALSE, text |-> <<>>]
        ELSE IF program = "discord_bot"
        THEN Section(DiscordBotFormatRewards(DictGet(event.items, reward_key)))
        ELSE Section([raised |-> FALSE,
                      text |-> UpdatedFormatRewards(DictGet(event.items, reward_key))])

NoField == [name |-> <<>>, value |-> <<>>]

\* the field show_events of discord_bot.py and show_genshin_events of
\* discord_bot_updated.py build for an event; raised is TRUE when a key of
\* the event is missing (KeyError) or format_rewards raises
GenshinEventField(program, event, today) ==
    LET Built(days_left, rewards) ==
            IF rewards.raised THEN [raised |-> TRUE, field |-> NoField]
            ELSE [raised |-> FALSE,
                  field |->
                      [name |-> FieldName(FStr(Subscript(event, Key.name).v), days_left),
                       value |-> <<"*", "*", "T", "y", "p", "e", ":", "*", "*", " ">> \o FStr(Subscript(event, Key.type).v)
                                    \o <<"\n", "*", "*", "S", "t", "a", "r", "t", " ", "D", "a", "t", "e", ":", "*", "*", " ">> \o FStr(Subscript(event, Key.start_date).v)
                                    \o <<"\n", "*", "*", "E", "n", "d", " ", "D", "a", "t", "e", ":", "*", "*", " ">> \o FStr(Subscript(event, Key.end_date).v)
                                    \o <<" ", "(">> \o DaysText(days_left) \o <<")", "\n">>
                                    \o rewards.text
                                    \o <<"\n", "[", "M", "o", "r", "e", " ", "I", "n", "f", "o", "]", "(">> \o FStr(Subscript(event, Key.link).v) \o <<")">>]]
    IN  IF \E key \in {Key.end_date, Key.name, Key.type, Key.start_date, Key.link} :
               Subscript(event, key).raised
        THEN [raised |-> TRUE, field |-> NoField]
        ELSE Built(get_days_remaining(StrOf(Subscript(event, Key.end_date).v), today),
                   RewardsSection(program, event))

\* the end date show_waves_events and check_deadlines take for a Wuthering
\* Waves event: its end_date, else the end of its dates
WavesEndDate(event) ==
    IF Truthy(GetOrBlank(event, Key.end_date)) THEN GetOrBlank(event, Key.end_date)
    ELSE IF DictHas(event.items, Key.dates)
    THEN extract_dates_from_string(StrOf(DictGet(event.items, Key.dates))).end_date
    ELSE GetOrBlank(event, Key.end_date)

\* days_left = get_days_remaining(end_date) if end_date else None
WavesDaysLeft(event, today) ==
    IF Truthy(WavesEndDate(event)) THEN get_days_remaining(WavesEndDate(event), today)
    ELSE [known |-> FALSE, days |-> 0]

\* event.get(key, 'N/A')
GetOrNA(event, key) ==
    IF DictHas(event.items, key) THEN FStr(DictGet(event.items, key)) ELSE <<"N", "/", "A">>

\* the field show_waves_events builds for an event
WavesEventField(event, today) ==
    LET Built(days_left) ==
            [raised |-> FALSE,
             field |->
                 [name |-> FieldName(FStr(Subscript(event, Key.name).v), days_left),
                  value |-> <<"*", "*", "V", "e", "r", "s", "i", "o", "n", ":", "*", "*", " ">> \o GetOrNA(event, Key.version) \o <<"\n">>
                      \o (IF DictHas(event.items, Key.start_date) /\ DictHas(event.items, Key.end_date)
                          THEN <<"*", "*", "S", "t", "a", "r", "t", " ", "D", "a", "t", "e", ":", "*", "*", " ">> \o FStr(DictGet(event.items, Key.start_date))
                                   \o <<"\n", "*", "*", "E", "n", "d", " ", "D", "a", "t", "e", ":", "*", "*", " ">> \o FStr(DictGet(event.items, Key.end_date))
                                   \o <<" ", "(">> \o DaysText(days_left) \o <<")", "\n">>
                          ELSE <<"*", "*", "D", "a", "t", "e", "s", ":", "*", "*", " ">> \o GetOrNA(event, Key.dates)
                                   \o <<" ", "(">> \o DaysText(days_left) \o <<")", "\n">>)
                      \o (IF DictHas(event.items, Key.rewards) /\ IsTruthy(DictGet(event.items, Key.rewards))
                          THEN <<"\n", "*", "*", "R", "e", "w", "a", "r", "d", "s", ":", "*", "*", "\n">> \o UpdatedFormatRewards(DictGet(event.items, Key.rewards))
                                   \o <<"\n">>
                          ELSE <<>>)
                      \o (IF DictHas(event.items, Key.link) /\ IsTruthy(DictGet(event.items, Key.link))
                          THEN <<"\n", "[", "M", "o", "r", "e", " ", "I", "n", "f", "o", "]", "(">> \o FStr(DictGet(event.items, Key.link)) \o <<")">>
                          ELSE <<>>)]]
    IN  IF Subscript(event, Key.name).raised THEN [raised |-> TRUE, field |-> NoField]
        ELSE Built(WavesDaysLeft(event, today))

\* a new embed is started before the next field
NeedsNewEmbed_Late(field_count) == field_count > EmbedFieldLimit

\* if field_count >= 25
NeedsNewEmbed(field_count) == field_count >= EmbedFieldLimit

NoEmbed == [title |-> <<>>, fields |-> <<>>]

\* a message the bot sends: to the channel of the command ("reply") or to
\* the notification channel ("alerts"), its content and its embed
Message(channel, content, embed) == [channel |-> channel, content |-> content, embed |-> embed]

\* the title of the embeds of an event-display handler
EmbedTitle(game_type, continued) ==
    (IF game_type = "waves" THEN <<"W", "u", "t", "h", "e", "r", "i", "n", "g", " ", "W", "a", "v", "e", "s", " ", "E", "v", "e", "n", "t", "s">> ELSE <<"G", "e", "n", "s", "h", "i", "n", " ", "I", "m", "p", "a", "c", "t", " ", "E", "v", "e", "n", "t", "s">>) \o (IF continued THEN <<" ", "(", "C", "o", "n", "t", "i", "n", "u", "e", "d", ")">> ELSE <<>>)

\* the fields the loop of an event-display handler builds for the events
EventFields(program, game_type, events, today) ==
    [i \in 1..Len(events) |->
        IF game_type = "waves" THEN WavesEventField(events[i], today)
        ELSE GenshinEventField(program, events[i], today)]

RECURSIVE EventEmbeds(_, _, _, _)
\* the loop of an event-display handler adds the fields to the embeds:
\* embeds and current_embed after it
EventEmbeds(game_type, fields, embeds, current_embed) ==
    IF fields = <<>> THEN embeds \o <<current_embed>>
    ELSE IF NeedsNewEmbed(Len(current_embed.fields))
    THEN EventEmbeds(game_type, Tail(fields), embeds \o <<current_embed>>,
                     [title |-> EmbedTitle(game_type, TRUE), fields |-> <<Head(fields)>>])
    ELSE EventEmbeds(game_type, Tail(fields), embeds,
                     [current_embed EXCEPT !.fields = @ \o <<Head(fields)>>])

\* "No active events found." and its variants
NoActiveEvents(program, game_type) ==
    IF program = "discord_bot" THEN <<"N", "o", " ", "a", "c", "t", "i", "v", "e", " ", "e", "v", "e", "n", "t", "s", " ", "f", "o", "u", "n", "d", ".">>
    ELSE IF game_type = "waves" THEN <<"N", "o", " ", "a", "c", "t", "i", "v", "e", " ", "W", "u", "t", "h", "e", "r", "i", "n", "g", " ", "W", "a", "v", "e", "s", " ", "e", "v", "e", "n", "t", "s", " ", "f", "o", "u", "n", "d", ".">> ELSE <<"N", "o", " ", "a", "c", "t", "i", "v", "e", " ", "G", "e", "n", "s", "h", "i", "n", " ", "I", "m", "p", "a", "c", "t", " ", "e", "v", "e", "n", "t", "s", " ", "f", "o", "u", "n", "d", ".">>

\* show_events of discord_bot.py, show_genshin_events and show_waves_events
\* of discord_bot_updated.py, on the list get_formatted_events returned:
\* the messages sent, and whether the handler raised
ShowEventsOutcome(program, game_type, events, today) ==
    LET Sent(embeds) ==
            [raised |-> FALSE,
             sent |-> [i \in 1..Len(embeds) |-> Message("reply", None, embeds[i])]]
        Built(built) ==
            IF \E i \in 1..Len(built) : built[i].raised THEN [raised |-> TRUE, sent |-> <<>>]
            ELSE Sent(EventEmbeds(game_type, [i \in 1..Len(built) |-> built[i].field], <<>>,
                                  [title |-> EmbedTitle(game_type, FALSE), fields |-> <<>>]))
    IN  IF events = <<>>
        THEN [raised |-> FALSE,
              sent |-> <<Message("reply", NoActiveEvents(program, game_type), NoEmbed)>>]
        ELSE Built(EventFields(program, game_type, events, today))

\* the roles of the server, a role's id its place in the list
GuildRoles == <<<<"e", "v", "e", "n", "t", "-", "a", "l", "e", "r", "t", "s">>, <<"r", "a", "i", "d", "e", "r", "s">>>>

\* discord.utils.get(guild.roles, name=role_name): the id of the role, 0
\* when the server has no role of the name
RoleId(role_name) ==
    IF \E i \in 1..Len(GuildRoles) : GuildRoles[i] = role_name
    THEN CHOOSE i \in 1..Len(GuildRoles) : GuildRoles[i] = role_name
    ELSE 0

\* role.mention
Mention(role_name) == <<"<", "@", "&">> \o Dec(RoleId(role_name)) \o <<">">>

\* the title of the alert of discord_bot.py for an event
AlertTitle(event_name) ==
    WarningSign \o <<" ", "E", "v", "e", "n", "t", " ", "E", "n", "d", "i", "n", "g", " ", "S", "o", "o", "n", ":", " ">> \o event_name \o <<" ">> \o WarningSign

\* the title of the alert of discord_bot_updated.py
DeadlineAlertTitle == <<"siren">> \o <<" ", "E", "v", "e", "n", "t", " ", "D", "e", "a", "d", "l", "i", "n", "e", " ", "A", "l", "e", "r", "t", " ">> \o <<"siren">>

\* the name of the field of an event in the alert of discord_bot_updated.py
AlertFieldName(game_type, event_name) ==
    (IF game_type = "genshin" THEN <<"gamepad", " ", "G", "I">> ELSE <<"wave", " ", "W", "W">>)
        \o <<" ", "|", " ">> \o event_name

\* the first loop of check_deadlines of discord_bot.py: the events whose
\* deadline approaches; raised when an event has no end_date
DiscordBotApproaching(events, today) ==
    IF \E i \in 1..Len(events) : Subscript(events[i], Key.end_date).raised
    THEN [raised |-> TRUE, events |-> <<>>]
    ELSE [raised |-> FALSE,
          events |-> SelectSeq(events,
                         LAMBDA event :
                             DeadlineApproaches(
                                 get_days_remaining(StrOf(Subscript(event, Key.end_date).v),
                                                    today)))]

\* the value of the field of an alert of discord_bot.py
DiscordBotAlertValue(event, days_left, rewards) ==
    <<"*", "*", "T", "y", "p", "e", ":", "*", "*", " ">> \o FStr(Subscript(event, Key.type).v)
        \o <<"\n", "*", "*", "E", "n", "d", " ", "D", "a", "t", "e", ":", "*", "*", " ">> \o FStr(Subscript(event, Key.end_date).v) \o <<" ", "(">>
        \o (IF days_left.days = 0 THEN <<"t", "o", "d", "a", "y">> ELSE <<"i", "n", " ">> \o Dec(days_left.days) \o <<" ", "d", "a", "y", "s">>)
        \o <<")", "\n">> \o rewards.text
        \o <<"\n", "[", "M", "o", "r", "e", " ", "I", "n", "f", "o", "]", "(">> \o FStr(Subscript(event, Key.link).v) \o <<")">>

\* the alert of an event raises: the event has no name, no type or no link,
\* or format_rewards cannot format its rewards
AlertRaises(event) ==
    \/ \E key \in {Key.name, Key.type, Key.link} : Subscript(event, key).raised
    \/ RewardsSection("discord_bot", event).raised

\* the second loop of check_deadlines of discord_bot.py: for each event the
\* role ping, then the embed; an alert that raises ends the loop after its
\* ping was sent
DiscordBotAlerts(events, role_mention, today) ==
    LET Embed(event) ==
            Message("alerts", None,
                [title |-> AlertTitle(FStr(Subscript(event, Key.name).v)),
                 fields |->
                     <<[name |-> <<"E", "v", "e", "n", "t", " ", "D", "e", "t", "a", "i", "l", "s">>,
                        value |-> DiscordBotAlertValue(event,
                                      get_days_remaining(StrOf(Subscript(event, Key.end_date).v),
                                                         today),
                                      RewardsSection("discord_bot", event))]>>])
        Sent(count) ==
            [k \in 1..count |->
                IF k % 2 = 1 THEN Message("alerts", role_mention, NoEmbed)
                ELSE Embed(events[k \div 2])]
    IN  IF \E i \in 1..Len(events) : AlertRaises(events[i])
        THEN [raised |-> TRUE,
              sent |-> Sent(2 * (CHOOSE i \in 1..Len(events) :
                                     /\ AlertRaises(events[i])
                                     /\ \A j \in 1..(i - 1) : ~AlertRaises(events[j])) - 1)]
        ELSE [raised |-> FALSE, sent |-> Sent(2 * Len(events))]

\* check_deadlines() of discord_bot.py on the list get_formatted_events
\* returned
DiscordBotCheckDeadlines(channel_id, role_name, events, today) ==
    LET Alerts(approaching) ==
            IF approaching.raised THEN [raised |-> TRUE, sent |-> <<>>]
            ELSE DiscordBotAlerts(approaching.events,
                                  IF RoleId(role_name) = 0 THEN <<"@">> \o role_name
                                  ELSE Mention(role_name),
                                  today)
    IN  IF channel_id = 0 THEN [raised |-> FALSE, sent |-> <<>>]
        ELSE Alerts(DiscordBotApproaching(events, today))

\* an entry of ending_soon
EndingSoon(event, game_type, days_left) ==
    [event |-> event, game_type |-> game_type, days_left |-> days_left]

\* the entries of ending_soon among the events of a game
EndingSoonOf(events, game_type, days_left) ==
    LET entries == [i \in 1..Len(events) |-> EndingSoon(events[i], game_type, days_left[i])]
    IN  SelectSeq(entries, LAMBDA entry : DeadlineApproaches(entry.days_left))

\* the loop of check_deadlines of discord_bot_updated.py over the Genshin
\* events; raised when an event has no end_date
GenshinEndingSoon(events, today) ==
    IF \E i \in 1..Len(events) : Subscript(events[i], Key.end_date).raised
    THEN [raised |-> TRUE, events |-> <<>>]
    ELSE [raised |-> FALSE,
          events |-> EndingSoonOf(events, "genshin",
                         [i \in 1..Len(events) |->
                             get_days_remaining(StrOf(Subscript(events[i], Key.end_date).v),
                                                today)])]

\* its loop over the Wuthering Waves events
WavesEndingSoon(events, today) ==
    EndingSoonOf(events, "waves", [i \in 1..Len(events) |-> WavesDaysLeft(events[i], today)])

\* the value of the field of an event of the alert of discord_bot_updated.py
DeadlineAlertValue(entry) ==
    (IF entry.days_left.days = 0 THEN <<"*", "*", "E", "N", "D", "I", "N", "G", " ", "T", "O", "D", "A", "Y", "!", "*", "*", "\n">>
     ELSE IF entry.days_left.days = 1 THEN <<"*", "*", "E", "N", "D", "I", "N", "G", " ", "T", "O", "M", "O", "R", "R", "O", "W", "!", "*", "*", "\n">>
     ELSE <<"*", "*">> \o Dec(entry.days_left.days) \o <<" ", "d", "a", "y", "s", " ", "r", "e", "m", "a", "i", "n", "i", "n", "g", "*", "*", "\n">>)
        \o (IF entry.game_type = "genshin" \/ DictHas(entry.event.items, Key.end_date)
            THEN <<"E", "n", "d", " ", "D", "a", "t", "e", ":", " ">> \o FStr(DictGet(entry.event.items, Key.end_date)) \o <<"\n">>
            ELSE <<"D", "a", "t", "e", "s", ":", " ">> \o GetOrNA(entry.event, Key.dates) \o <<"\n">>)
        \o (IF DictHas(entry.event.items, Key.link) /\ IsTruthy(DictGet(entry.event.items, Key.link))
            THEN <<"[", "M", "o", "r", "e", " ", "I", "n", "f", "o", "]", "(">> \o FStr(DictGet(entry.event.items, Key.link)) \o <<")">>
            ELSE <<>>)

\* check_deadlines() of discord_bot_updated.py on the lists
\* get_formatted_events returned for the two games
UpdatedCheckDeadlines(channel_id, role_name, genshin_events, waves_events, today) ==
    LET Alert(ending_soon) ==
            IF ending_soon = <<>> THEN [raised |-> FALSE, sent |-> <<>>]
            ELSE IF \E i \in 1..Len(ending_soon) : Subscript(ending_soon[i].event, Key.name).raised
            THEN [raised |-> TRUE, sent |-> <<>>]
            ELSE [raised |-> FALSE,
                  sent |->
                      <<Message("alerts",
                                IF role_name # <<>> /\ RoleId(role_name) # 0
                                THEN Mention(role_name) ELSE None,
                                [title |-> DeadlineAlertTitle,
                                 fields |->
                                     [i \in 1..Len(ending_soon) |->
                                         [name |-> AlertFieldName(ending_soon[i].game_type,
                                                       FStr(Subscript(ending_soon[i].event, Key.name).v)),
                                          value |-> DeadlineAlertValue(ending_soon[i])]]])>>]
        Soon(genshin) ==
            IF genshin.raised THEN [raised |-> TRUE, sent |-> <<>>]
            ELSE Alert(genshin.events \o WavesEndingSoon(waves_events, today))
    IN  IF channel_id = 0 THEN [raised |-> FALSE, sent |-> <<>>]
        ELSE Soon(GenshinEndingSoon(genshin_events, today))

(***************************************************************************)
(* The texts the model feeds to the date pipeline.                         *)
(***************************************************************************)
\* the dates of the inputs: two months, NumDays days across the one-digit /
\* two-digit boundary
InputDates == {[mo |-> mo, d |-> d] : mo \in {2, 3}, d \in 9..(9 + NumDays - 1)}

InputHours == 3..(3 + NumHours - 1)

\* "2025-03-09" or "2025/03/09"
DateText(x, sep) == Year4(2025) \o <<sep>> \o Pad2(x.mo) \o <<sep>> \o Pad2(x.d)

\* "2025-03-09 03:59"
TimestampText(x, h, sep) == DateText(x, sep) \o <<" ">> \o Pad2(h) \o <<":", "5", "9">>

\* "2025-3-9": a date whose fields are not zero padded
UnpaddedText(x) == Year4(2025) \o <<"-">> \o Dec(x.mo) \o <<"-">> \o Dec(x.d)

\* "March 9"
MonthDayText(x) ==
    <<UpperSeq[CHOOSE k \in 1..26 : LowerSeq[k] = MonthNames[x.mo][1]]>>
        \o Tail(MonthNames[x.mo]) \o <<" ">> \o Dec(x.d)

\* "March 9, 2025"
LongDateText(x) == MonthDayText(x) \o <<",", " ">> \o Year4(2025)

TBA == <<"T", "B", "A">>

\* every timestamp "YYYY-MM-DD HH:MM" of the inputs
Timestamps == {TimestampText(x, h, "-") : x \in InputDates, h \in InputHours}

\* the date strings an event record may carry into validate_and_format_dates
DateStrings ==
    Timestamps
        \cup {TimestampText(x, h, "/") : x \in InputDates, h \in InputHours}
        \cup {DateText(x, "-") : x \in InputDates}
        \cup {DateText(x, "/") : x \in InputDates}
        \cup {UnpaddedText(x) : x \in InputDates}
        \cup {LongDateText(x) : x \in InputDates}
        \cup {DateText(x, "-") \o <<" ">> \o TBA : x \in InputDates}
        \cup {TBA, <<>>, None, Missing}

\* the visible texts of a duration cell
CellTexts ==
    {LongDateText(x) \o <<" ", EnDash, " ">> \o LongDateText(y) : x, y \in InputDates}
        \cup {MonthDayText(x) \o <<" ", EnDash, " ">> \o LongDateText(y) : x, y \in InputDates}
        \cup {TBA}

SixBlanks == <<" ", " ", " ", " ", " ", " ">>

\* the duration cells of the index table
DurationCells ==
    {[data_sort_value |-> a \o b, text |-> TBA] : a, b \in Timestamps}
        \cup {[data_sort_value |-> a \o DateText(x, "-") \o SixBlanks, text |-> TBA] :
                 a \in Timestamps, x \in InputDates}
        \cup {[data_sort_value |-> DateText(x, "-") \o DateText(y, "-"), text |-> t] :
                 x \in {[mo |-> 3, d |-> 9]}, y \in InputDates, t \in CellTexts}
        \cup {[data_sort_value |-> None, text |-> t] : t \in CellTexts}

EventName == <<"A", "p", "e", "x">>

(***************************************************************************)
(* The pages the model feeds to the reward extractors.                     *)
(***************************************************************************)
\* a card of a Genshin page
GenshinCard(title, href_primogem, qty) ==
    [has_link |-> TRUE, title |-> title, img_primogem |-> FALSE,
     href_primogem |-> href_primogem, qty |-> qty]

GenshinCardKinds ==
    {GenshinCard(Primogem, TRUE, <<"6", "0">>),
     GenshinCard(Primogem, TRUE, <<"6", "0", "0">>),
     GenshinCard(<<>>, TRUE, <<"2", "0", "0">>),
     GenshinCard(Mora, FALSE, <<"6", "0">>),
     GenshinCard(Mora, FALSE, <<"2", "0", "0", ",", "0", "0", "0">>),
     GenshinCard(Mora, FALSE, <<"x", "5">>),
     GenshinCard(Mora, FALSE, None)}

\* a card that is not a reward of the event: the pages with many cards carry
\* these before the reward cards
OtherCard == GenshinCard(<<"W", "i", "t">>, FALSE, <<"1">>)

\* the sequences over S of length 1..n
SeqsUpTo(S, n) == UNION {[1..k -> S] : k \in 1..n}

\* the Genshin event pages: a page that could not be fetched, or a page with
\* or without the heading and the card-list-container, its reward cards alone
\* or after so many other cards that Method 2 takes its last cards
GenshinPages ==
    {[fetched |-> FALSE, heading |-> FALSE, container |-> FALSE, cards |-> <<>>]}
        \cup {[fetched |-> TRUE, heading |-> layout[1], container |-> layout[2],
               cards |-> [i \in 1..others |-> OtherCard] \o cards] :
                 layout \in {<<FALSE, FALSE>>, <<TRUE, FALSE>>, <<TRUE, TRUE>>},
                 others \in {0, SummaryCards - 2},
                 cards \in SeqsUpTo(GenshinCardKinds, MaxCards)}

\* a card of a Wuthering Waves page
WavesCard(title, text, qty) == [has_link |-> TRUE, title |-> title, text |-> text, qty |-> qty]

WavesCardKinds ==
    {WavesCard(Astrite, Astrite, <<"6", "0">>),
     WavesCard(Astrite, Astrite, <<"6", "0", "0">>),
     WavesCard(<<>>, ShellCredit, <<"1", ",", "0", "0", "0">>),
     WavesCard(ShellCredit, <<>>, <<"x", "5">>),
     WavesCard(<<"E", "d", "i", "t">>, <<>>, <<"5">>),
     [has_link |-> FALSE, title |-> <<>>, text |-> <<>>, qty |-> <<"7">>]}

\* the links that follow the heading of a Wuthering Waves page
WavesLinkLists ==
    {<<>>,
     <<[text |-> <<"E", "d", "i", "t">>, title |-> <<>>, sibling |-> None],
       [text |-> Astrite, title |-> Astrite, sibling |-> <<"x", "1", ",", "2", "0", "0">>],
       [text |-> Astrite, title |-> Astrite, sibling |-> <<"3", "0">>]>>,
     <<[text |-> <<>>, title |-> ShellCredit, sibling |-> None],
       [text |-> <<>>, title |-> <<>>, sibling |-> <<"9">>]>>}

\* the rows of the rewards table of a Wuthering Waves page
WavesRowLists ==
    {<<>>,
     <<<<<<"I", "t", "e", "m">>, <<"Q", "t", "y">>>>,
       <<Astrite, <<"x", "1", "6", "0">>>>,
       <<ShellCredit, <<"m", "a", "n", "y">>>>,
       <<<<"E", "d", "i", "t">>, <<"3">>>>,
       <<ShellCredit>>>>}

\* the Wuthering Waves event pages
WavesPages ==
    {[fetched |-> FALSE, heading |-> FALSE, links |-> <<>>, rows |-> <<>>, cards |-> <<>>]}
        \cup {[fetched |-> TRUE, heading |-> heading, links |-> links, rows |-> rows,
               cards |-> cards] :
                 heading \in BOOLEAN, links \in WavesLinkLists, rows \in WavesRowLists,
                 cards \in {<<>>} \cup SeqsUpTo(WavesCardKinds, MaxCards)}

(***************************************************************************)
(* The arguments the model feeds to format_rewards.                        *)
(***************************************************************************)
Gold == <<"G", "o", "l", "d">>

\* "Astrite:60", "Astrite:600", "Astrite:x5", "Astrite", "Gold:600",
\* "Gold:1,000" and "Exp:Up:7"
RewardStrings ==
    {Astrite \o <<":", "6", "0">>,
     Astrite \o <<":", "6", "0", "0">>,
     Astrite \o <<":", "x", "5">>,
     Astrite,
     Gold \o <<":", "6", "0", "0">>,
     Gold \o <<":", "1", ",", "0", "0", "0">>,
     <<"E", "x", "p", ":", "U", "p", ":", "7">>}

\* the reward mappings of the snapshot records
RewardDicts ==
    {<<>>,
     <<[k |-> Gold, v |-> PyInt(5)], [k |-> Mora, v |-> PyInt(200000)],
       [k |-> <<"E", "x", "p">>, v |-> PyStr(<<"m", "a", "n", "y">>)],
       [k |-> Primogem, v |-> PyInt(60)]>>}

\* the values of the rewards field of a snapshot record
RewardArguments ==
    {RewardArgument("list", l, <<>>, <<>>) : l \in {<<>>} \cup SeqsUpTo(RewardStrings, MaxRewards)}
        \cup {RewardArgument("dict", <<>>, d, <<>>) : d \in RewardDicts}
        \cup {RewardArgument("str", <<>>, <<>>, t) : t \in {<<>>, TBA}}
        \cup {RewardArgument("NoneType", <<>>, <<>>, <<>>)}

(***************************************************************************)
(* The index pages and the template the model feeds to the event-list      *)
(* extractors.                                                             *)
(***************************************************************************)
\* the longest run of links, and of table rows, of an index page
MaxLinks == 2

MaxRows == 2

WikiOde == <<"/", "w", "i", "k", "i", "/", "O", "d", "e">>

WikiTide == <<"/", "w", "i", "k", "i", "/", "T", "i", "d", "e">>

\* links of the Genshin index page: the same page by a relative and by an
\* absolute href and under three anchor texts, a page that cannot be
\* fetched, an anchor without href, an anchor of the page itself
GenshinIndexLinks ==
    {[href |-> WikiOde, text |-> <<"O", "d", "e">>, detail_ok |-> TRUE],
     [href |-> GenshinBase \o WikiOde, text |-> <<"O", "d", "e", ":", " ", "P", "a", "r", "t", " ", "2">>, detail_ok |-> TRUE],
     [href |-> WikiOde, text |-> <<"O", "d", "e", " ", "a", "g", "a", "i", "n">>, detail_ok |-> TRUE],
     [href |-> <<"/", "w", "i", "k", "i", "/", "B", "a", "t", "t", "l", "e", "_", "P", "a", "s", "s">>, text |-> <<"B", "a", "t", "t", "l", "e", " ", "P", "a", "s", "s">>, detail_ok |-> FALSE],
     [href |-> None, text |-> <<"E", "d", "i", "t">>, detail_ok |-> FALSE],
     [href |-> <<"#", "U", "p", "c", "o", "m", "i", "n", "g">>, text |-> <<"U", "p", "c", "o", "m", "i", "n", "g">>, detail_ok |-> FALSE]}

GenshinFinalPages ==
    {[status_ok |-> s, heading |-> h, ul |-> <<>>, following |-> <<>>, table |-> <<>>,
      sample_ok |-> FALSE] : s, h \in BOOLEAN}
        \cup {[status_ok |-> TRUE, heading |-> TRUE, ul |-> ul, following |-> ul,
               table |-> <<>>, sample_ok |-> FALSE] : ul \in SeqsUpTo(GenshinIndexLinks, MaxLinks)}
        \cup {[status_ok |-> TRUE, heading |-> TRUE, ul |-> <<>>, following |-> f, table |-> t,
               sample_ok |-> ok] :
                 f \in {<<>>} \cup SeqsUpTo(GenshinIndexLinks, 1), t \in {<<>>} \cup SeqsUpTo(GenshinIndexLinks, 1),
                 ok \in BOOLEAN}

\* links of the Wuthering Waves index page: the same page by a relative and
\* by an absolute href, a category page, a page that cannot be fetched
WavesIndexLinks ==
    {[href |-> WikiTide, text |-> <<"T", "i", "d", "e">>, detail_ok |-> TRUE],
     [href |-> WavesBase \o WikiTide, text |-> <<"T", "i", "d", "e", " ", "L", "o", "g", "i", "n">>, detail_ok |-> TRUE],
     [href |-> <<"/", "w", "i", "k", "i", "/", "C", "a", "t", "e", "g", "o", "r", "y", ":", "E", "v", "e", "n", "t", "s">>, text |-> <<"E", "v", "e", "n", "t", "s">>, detail_ok |-> TRUE],
     [href |-> <<"/", "w", "i", "k", "i", "/", "R", "u", "s", "h">>, text |-> <<"R", "u", "s", "h">>, detail_ok |-> FALSE],
     [href |-> WikiTide, text |-> <<>>, detail_ok |-> TRUE]}

WavesFinalPages ==
    {[status_ok |-> s, heading |-> h, following |-> <<>>] : s, h \in BOOLEAN}
        \cup {[status_ok |-> TRUE, heading |-> TRUE, following |-> f] :
                 f \in SeqsUpTo(WavesIndexLinks, MaxLinks)}


\* rows of the Genshin event table: an event by a relative and by an
\* absolute href, a linked event without href, a row without a link, a row
\* of two cells, an event whose href urljoin rejects
GenshinIndexRows ==
    {[cells |-> 3, link |-> [found |-> TRUE, href |-> WikiOde, text |-> <<"O", "d", "e">>,
               title |-> <<>>],
      dates |-> <<"M", "a", "r", "c", "h", " ", "9", ",", " ", "2", "0", "2", "5">>, version |-> <<"5", ".", "4">>],
     [cells |-> 3, link |-> [found |-> TRUE, href |-> GenshinBase \o WikiOde, text |-> <<"O", "d", "e", ":", " ", "P", "a", "r", "t", " ", "2">>,
               title |-> <<>>],
      dates |-> <<>>, version |-> None],
     [cells |-> 3, link |-> [found |-> TRUE, href |-> None, text |-> <<"L", "a", "n", "t", "e", "r", "n">>,
               title |-> <<>>],
      dates |-> <<"M", "a", "r", "c", "h", " ", "9", ",", " ", "2", "0", "2", "5">>, version |-> None],
     [cells |-> 3, link |-> NoLink, dates |-> <<"M", "a", "r", "c", "h", " ", "9", ",", " ", "2", "0", "2", "5">>, version |-> <<"5", ".", "4">>],
     [cells |-> 2, link |-> [found |-> TRUE, href |-> WikiOde, text |-> <<"O", "d", "e">>,
               title |-> <<>>],
      dates |-> <<"M", "a", "r", "c", "h", " ", "9", ",", " ", "2", "0", "2", "5">>, version |-> <<"5", ".", "4">>],
     [cells |-> 3, link |-> [found |-> TRUE, href |-> <<"/", "/", "[", "w", "i", "k", "i", "/", "L", "a", "n", "t", "e", "r", "n">>, text |-> <<"L", "a", "n", "t", "e", "r", "n", " ", "R", "i", "t", "e">>,
               title |-> <<>>],
      dates |-> <<>>, version |-> None]}

GenshinFixedPages ==
    {[status_ok |-> s, heading |-> h, table |-> t, tbody |-> b, rows |-> <<>>] :
         s, h, t, b \in BOOLEAN}
        \cup {[status_ok |-> TRUE, heading |-> TRUE, table |-> TRUE, tbody |-> TRUE, rows |-> r] :
                 r \in SeqsUpTo(GenshinIndexRows, MaxRows)}

\* duration cells of the Wuthering Waves tables: the end before the start
\* in data-sort-value, the two timestamps of Apex Ragunna, a visible range
\* only, nothing to read
WavesDurationCells ==
    {[data_sort_value |-> <<"2", "0", "2", "5", "-", "0", "3", "-", "1", "0", " ", "0", "3", ":", "5", "9", "2", "0", "2", "5", "-", "0", "2", "-", "1", "2", " ", "1", "0", ":", "0", "0">>, text |-> TBA],
     [data_sort_value |-> <<"2", "0", "2", "5", "-", "0", "3", "-", "1", "0", " ", "0", "3", ":", "5", "9", "2", "0", "2", "5", "-", "0", "2", "-", "2", "0", " ", "1", "0", ":", "0", "0">>, text |-> TBA],
     [data_sort_value |-> None, text |-> <<"F", "e", "b", "r", "u", "a", "r", "y", " ", "1", "2", ",", " ", "2", "0", "2", "5", " ">> \o <<EnDash>> \o <<" ", "M", "a", "r", "c", "h", " ", "1", "0", ",", " ", "2", "0", "2", "5">>],
     [data_sort_value |-> None, text |-> TBA]}

\* rows of the Wuthering Waves tables: a linked event, an event named by
\* the title of its link, an event without a link, a link without href
WavesIndexRows ==
    {[cells |-> 2, link |-> [found |-> TRUE, href |-> WikiTide, text |-> <<"T", "i", "d", "e">>, title |-> <<"T", "i", "d", "e", "/", "2", "0", "2", "5", "-", "0", "2", "-", "1", "2">>],
      cell_text |-> <<"T", "i", "d", "e">>, duration_cell |-> c] : c \in WavesDurationCells}
        \cup {[cells |-> 2, link |-> [found |-> TRUE, href |-> <<"/", "w", "i", "k", "i", "/", "A", "p", "e", "x", "_", "R", "a", "g", "u", "n", "n", "a">>, text |-> <<>>, title |-> ApexRagunna],
               cell_text |-> <<>>, duration_cell |-> c] : c \in WavesDurationCells}
        \cup {[cells |-> 2, link |-> NoLink, cell_text |-> <<"R", "u", "s", "h">>,
               duration_cell |-> [data_sort_value |-> None, text |-> TBA]],
              [cells |-> 1, link |-> NoLink, cell_text |-> <<"R", "u", "s", "h">>,
               duration_cell |-> [data_sort_value |-> None, text |-> TBA]],
              [cells |-> 2, link |-> [found |-> TRUE, href |-> None, text |-> <<"T", "i", "d", "e">>, title |-> <<>>],
               cell_text |-> <<"T", "i", "d", "e">>, duration_cell |-> [data_sort_value |-> None, text |-> TBA]]}

WavesFixedPages ==
    {[status_ok |-> s, heading |-> h, table |-> t, rows |-> <<>>] : s, h, t \in BOOLEAN}
        \cup {[status_ok |-> TRUE, heading |-> TRUE, table |-> TRUE, rows |-> r] :
                 r \in SeqsUpTo(WavesIndexRows, MaxRows)}

\* waves_template.txt: unreadable, without a table, with the rows of a table
\* (the links of a template row carry an href)
Templates ==
    {NoTemplate, [readable |-> TRUE, table |-> FALSE, rows |-> <<>>],
     [readable |-> TRUE, table |-> TRUE, rows |-> <<>>]}
        \cup {[readable |-> TRUE, table |-> TRUE, rows |-> <<r>>] :
                 r \in {x \in WavesIndexRows : ~x.link.found \/ x.link.href # None}}

\* the file a scraper program writes its events to
OutputFile(program) ==
    IF program = "genshin_final" THEN "genshin_combined.json"
    ELSE IF program = "genshin_fixed" THEN "genshin_impact_current_events.json"
    ELSE "waves_events.json"

\* the events an earlier run of a scraper left in its file
EarlierEvents ==
    JList(<<JDict(<<Item(Key.name, JStr(<<"E", "a", "r", "l", "i", "e", "r", " ", "E", "v", "e", "n", "t">>)),
                    Item(Key.link, JStr(<<"h", "t", "t", "p", "s", ":", "/", "/", "e", "x", "a", "m", "p", "l", "e", ".", "o", "r", "g", "/", "w", "i", "k", "i", "/", "E", "a", "r", "l", "i", "e", "r">>)),
                    Item(Key.start_date, JStr(<<>>)),
                    Item(Key.end_date, JStr(<<>>)),
                    Item(Key.type, JStr(InGame)),
                    Item(Key.rewards, JDict(<<>>))>>)>>)

(***************************************************************************)
(* The lists of event records and the snapshot files the model feeds to    *)
(* the save functions and to load_events.                                  *)
(***************************************************************************)
\* the longest list of event records given to a save function
MaxEvents == 2

\* event records: one of genshin_final.py, with a quoted title in its name
\* and two rewards; one of waves_fixed.py without link and rewards; one with
\* a backslash and a line break in its name
EventRecords ==
    {JDict(<<Item(Key.name, JStr(<<"O", "d", "e", " ", "\"", "M", "e", "l", "o", "d", "i", "e", "s", "\"">>)),
             Item(Key.link, JStr(GenshinBase \o WikiOde)),
             Item(Key.start_date, JStr(<<"2", "0", "2", "5", "-", "0", "3", "-", "0", "9">>)),
             Item(Key.end_date, JStr(<<>>)),
             Item(Key.type, JStr(InGame)),
             Item(Key.reward_list, JDict(<<Item(<<"P", "r", "i", "m", "o", "g", "e", "m">>, JInt(60)),
                                         Item(<<"M", "o", "r", "a">>, JInt(200000))>>))>>),
     JDict(<<Item(Key.name, JStr(ApexRagunna)),
             Item(Key.link, JNull),
             Item(Key.start_date, JStr(<<"2", "0", "2", "5", "-", "0", "2", "-", "2", "0", " ", "1", "0", ":", "0", "0">>)),
             Item(Key.end_date, JStr(<<"2", "0", "2", "5", "-", "0", "3", "-", "1", "0", " ", "0", "3", ":", "5", "9">>)),
             Item(Key.type, JStr(<<>>)),
             Item(Key.rewards, JDict(<<>>))>>),
     JDict(<<Item(Key.name, JStr(<<"T", "i", "d", "e", "\\", "R", "u", "s", "h", "\n", "L", "o", "g", "i", "n">>)),
             Item(Key.link, JStr(WavesBase \o WikiTide)),
             Item(Key.start_date, JStr(<<>>)),
             Item(Key.end_date, JStr(<<>>)),
             Item(Key.type, JStr(InGameEvent)),
             Item(Key.rewards, JDict(<<Item(Astrite, JStr(<<"x", "5">>))>>))>>)}

EventLists == {JList(<<>>)} \cup {JList(records) : records \in SeqsUpTo(EventRecords, MaxEvents)}

\* what a snapshot file holds before the save: nothing (the file does not
\* exist), a snapshot cut short, an earlier snapshot
TruncatedSnapshot == <<"[", "\n", " ", " ", " ", " ", "{", "\n", " ", " ", " ", " ", " ", " ", " ", " ", "\"", "n", "a", "m", "e", "\"", ":", " ", "\"", "O", "d", "e", "\"">>

FileTexts == {None, TruncatedSnapshot, JsonDumps(JList(<<>>), indent)}

\* the arguments of load_events of discord_bot_updated.py: the two games in
\* the spellings the bot uses, another game, an argument that is not a str
GameTypes == {<<"g", "e", "n", "s", "h", "i", "n">>, <<"G", "e", "n", "s", "h", "i", "n">>, <<"w", "a", "v", "e", "s">>, <<"h", "s", "r">>, None}

(***************************************************************************)
(* The commands the model sends to the bot.                                *)
(***************************************************************************)
\* the most commands and deadline checks, other than refresh, that arrive
MaxCommands == 3

\* the most refresh commands that arrive
MaxRefreshes == 2

\* the events a scraper process scrapes: none, one event
ScrapedLists == {JList(<<>>), EarlierEvents}

\* the return codes of a scraper process
ReturnCodes == {0, 1}

(***************************************************************************)
(* The quantity texts the model feeds to parse_quantity.                   *)
(***************************************************************************)
\* the numbers the quantity texts denote
QuantityValues == {1, 5, 12, 60, 600, 1000, 1600, 20000, 100000, 1000000}

\* the markers a quantity text may start with
MultiplierMarkers == {<<>>, <<"x">>, <<"X">>, <<Times>>}

\* a marker, digits and thousands separators
WrittenQuantities ==
    {marker \o digits : marker \in MultiplierMarkers,
                        digits \in {Dec(n) : n \in QuantityValues} \cup {Commas(n) : n \in QuantityValues}}

\* texts without a parseable integer, and a text with blanks around the digits
OtherQuantityTexts ==
    {None, <<>>, <<"m", "a", "n", "y">>, <<"x">>, <<Times>>, <<",">>, <<" ">>, <<" ", "7", " ">>,
     <<"x", " ", "5">>, <<"5", "x">>, <<"-", "5">>}

QuantityTexts == WrittenQuantities \cup OtherQuantityTexts

(***************************************************************************)
(* The date range strings the model feeds to extract_dates_from_string.    *)
(***************************************************************************)
\* two dates joined by a separator
RangeText(first, separator, second) == first \o separator \o second

DateRangeTexts ==
    {RangeText(LongDateText(x), <<" ", EnDash, " ">>, LongDateText(y)) : x, y \in InputDates}
        \cup {RangeText(LongDateText(x), <<" ", "-", " ">>, LongDateText(y)) : x, y \in InputDates}
        \cup {RangeText(DateText(x, "-"), <<" ", "t", "o", " ">>, DateText(y, "-")) :
                 x, y \in InputDates}
        \cup {LongDateText(x) : x \in InputDates}
        \cup {TBA, <<>>, None}

(***************************************************************************)
(* The infoboxes the model feeds to extract_dates_from_infobox.            *)
(***************************************************************************)
MaxInfoboxRows == 2

\* the first date and the first hour of the inputs
FirstDate == [mo |-> 2, d |-> 9]

Tilde == <<" ", "~", " ">>

\* the texts of the data element of a row
InfoboxTexts ==
    {TimestampText(FirstDate, h, sep) \o Tilde \o TimestampText(y, h, sep) :
         y \in {FirstDate, [mo |-> 3, d |-> 9]}, h \in InputHours, sep \in {"/", "-"}}
        \cup {DateText(x, sep) \o Tilde \o DateText(FirstDate, sep) :
                 x \in InputDates, sep \in {"/", "-"}}
        \cup {TimestampText(FirstDate, h, sep) : h \in InputHours, sep \in {"/", "-"}}
        \cup {DateText(FirstDate, sep) : sep \in {"/", "-"}}
        \cup {Until \o <<" ">> \o DateText(FirstDate, "/"),
              LongDateText(FirstDate) \o <<" ", EnDash, " ">> \o LongDateText([mo |-> 3, d |-> 9]),
              TBA}

\* the rows of an infobox
InfoboxRows ==
    {[label |-> <<"D", "u", "r", "a", "t", "i", "o", "n">>, data |-> t] : t \in InfoboxTexts}
        \cup {[label |-> <<"T", "y", "p", "e">>, data |-> InGameEvent],
              [label |-> <<"E", "n", "d", "s">>, data |-> DateText(FirstDate, "/")]}

Infoboxes == {<<>>} \cup SeqsUpTo(InfoboxRows, MaxInfoboxRows)

(***************************************************************************)
(* The detail pages the model feeds to scrape_event_rewards.               *)
(***************************************************************************)
\* the reward items of a Genshin detail page
RewardItems ==
    {[name |-> Primogem, qty |-> <<"6", "0">>],
     [name |-> Primogem, qty |-> <<"x", "5">>],
     [name |-> Mora, qty |-> <<"2", "0", "0", ",", "0", "0", "0">>],
     [name |-> Mora, qty |-> None]}

\* the ways a page carries its rewards header
HeaderLayouts ==
    {[span_id |-> s, span_in_header |-> p, header_id |-> h, header_text |-> t] :
         s, p, h, t \in BOOLEAN} \ {[span_id |-> FALSE, span_in_header |-> TRUE,
                                      header_id |-> h, header_text |-> t] : h, t \in BOOLEAN}

DetailPages ==
    {[fetched |-> FALSE, span_id |-> FALSE, span_in_header |-> FALSE, header_id |-> FALSE,
      header_text |-> FALSE, after |-> <<>>, elsewhere |-> <<>>]}
        \cup {[fetched |-> TRUE, span_id |-> l.span_id, span_in_header |-> l.span_in_header,
               header_id |-> l.header_id, header_text |-> l.header_text,
               after |-> IF RewardsHeaderFound(l) THEN items ELSE <<>>,
               elsewhere |-> IF RewardsHeaderFound(l) THEN other ELSE other \o items] :
                 l \in HeaderLayouts,
                 other \in {<<>>, <<[name |-> <<"W", "i", "t">>, qty |-> <<"1">>]>>},
                 items \in {<<>>} \cup SeqsUpTo(RewardItems, MaxCards)}

(***************************************************************************)
(* The snapshots and the days the model gives to the handlers of the bot   *)
(* that show the events and check their deadlines.                         *)
(***************************************************************************)
\* the most records of a snapshot of distinct records
MaxSnapshot == 2

\* the most records of a snapshot of records that differ in their names only
MaxManyEvents == 51

\* the most handlers that run
MaxHandlers == 3

\* datetime.datetime.now(): the bot runs on 2025-03-09, at 09:30
RunDates == {[ok |-> TRUE, y |-> 2025, mo |-> 3, d |-> 9, h |-> 9, mi |-> 30]}

\* a Genshin record that ends on 2025-03-12, its rewards a mapping
SoonEvent ==
    JDict(<<Item(Key.name, JStr(<<"O", "d", "e">>)),
           Item(Key.type, JStr(<<"I", "n", "-", "G", "a", "m", "e">>)),
           Item(Key.start_date, JStr(<<"2", "0", "2", "5", "-", "0", "2", "-", "2", "0">>)),
           Item(Key.end_date, JStr(<<"2", "0", "2", "5", "-", "0", "3", "-", "1", "2">>)),
           Item(Key.link, JStr(GenshinBase \o <<"/", "w", "i", "k", "i", "/", "O", "d", "e">>)),
           Item(Key.reward_list, JDict(<<Item(Mora, JInt(200000)), Item(Primogem, JInt(420))>>))>>)

\* one that ends on 2025-03-13, its rewards a list
LaterEvent ==
    JDict(<<Item(Key.name, JStr(<<"T", "i", "d", "e">>)),
           Item(Key.type, JStr(<<"W", "e", "b">>)),
           Item(Key.start_date, JStr(<<"2", "0", "2", "5", "-", "0", "3", "-", "0", "1">>)),
           Item(Key.end_date, JStr(<<"2", "0", "2", "5", "-", "0", "3", "-", "1", "3">>)),
           Item(Key.link, JStr(GenshinBase \o <<"/", "w", "i", "k", "i", "/", "T", "i", "d", "e">>)),
           Item(Key.rewards, JList(<<JStr(<<"P", "r", "i", "m", "o", "g", "e", "m", " ", "x", "6", "0">>), JStr(<<"M", "o", "r", "a", " ", "x", "2", "0", "0", "0", "0">>)>>))>>)

\* one whose end date is blank, its reward_list a list
BlankEndEvent ==
    JDict(<<Item(Key.name, JStr(<<"G", "a", "l", "a">>)),
           Item(Key.type, JStr(<<"I", "n", "-", "G", "a", "m", "e">>)),
           Item(Key.start_date, JStr(<<>>)),
           Item(Key.end_date, JStr(<<>>)),
           Item(Key.link, JStr(GenshinBase \o <<"/", "w", "i", "k", "i", "/", "G", "a", "l", "a">>)),
           Item(Key.reward_list, JList(<<JStr(<<"P", "r", "i", "m", "o", "g", "e", "m", " ", "x", "6", "0">>)>>))>>)

\* one without end_date
NoEndEvent ==
    JDict(<<Item(Key.name, JStr(<<"F", "e", "t", "e">>)),
           Item(Key.type, JStr(<<"I", "n", "-", "G", "a", "m", "e">>)),
           Item(Key.start_date, JStr(<<"2", "0", "2", "5", "-", "0", "3", "-", "0", "2">>)),
           Item(Key.link, JStr(GenshinBase \o <<"/", "w", "i", "k", "i", "/", "F", "e", "t", "e">>))>>)

\* one that has a name and an end date only
BareEvent ==
    JDict(<<Item(Key.name, JStr(<<"R", "i", "t", "e">>)),
           Item(Key.end_date, JStr(<<"2", "0", "2", "5", "-", "0", "3", "-", "0", "9", " ", "0", "3", ":", "5", "9">>))>>)

\* one that ended on 2025-03-01
PastEvent ==
    JDict(<<Item(Key.name, JStr(<<"H", "u", "n", "t">>)),
           Item(Key.type, JStr(<<"I", "n", "-", "G", "a", "m", "e">>)),
           Item(Key.start_date, JStr(<<"2", "0", "2", "5", "-", "0", "2", "-", "0", "1">>)),
           Item(Key.end_date, JStr(<<"2", "0", "2", "5", "-", "0", "3", "-", "0", "1">>)),
           Item(Key.link, JStr(GenshinBase \o <<"/", "w", "i", "k", "i", "/", "H", "u", "n", "t">>))>>)

GenshinRecords == {SoonEvent, LaterEvent, BlankEndEvent, NoEndEvent, BareEvent, PastEvent}

\* a Wuthering Waves record whose dates end on March 11, 2025
WavesSoonEvent ==
    JDict(<<Item(Key.name, JStr(<<"C", "h", "o", "r", "d">>)),
           Item(Key.version, JStr(<<"2", ".", "1">>)),
           Item(Key.dates, JStr(<<"F", "e", "b", "r", "u", "a", "r", "y", " ", "1", "2", ",", " ", "2", "0", "2", "5", " ", "-", " ", "M", "a", "r", "c", "h", " ", "1", "1", ",", " ", "2", "0", "2", "5">>)),
           Item(Key.link, JStr(WavesBase \o <<"/", "w", "i", "k", "i", "/", "C", "h", "o", "r", "d">>)),
           Item(Key.rewards, JList(<<JStr(<<"A", "s", "t", "r", "i", "t", "e", " ", "x", "3", "0", "0">>)>>))>>)

\* one whose dates end on April 2, 2025
WavesLaterEvent ==
    JDict(<<Item(Key.name, JStr(<<"D", "r", "i", "f", "t">>)),
           Item(Key.dates, JStr(<<"M", "a", "r", "c", "h", " ", "2", ",", " ", "2", "0", "2", "5", " ", "-", " ", "A", "p", "r", "i", "l", " ", "2", ",", " ", "2", "0", "2", "5">>))>>)

\* one whose dates are not announced
WavesTBAEvent ==
    JDict(<<Item(Key.name, JStr(<<"E", "c", "h", "o">>)),
           Item(Key.dates, JStr(TBA)),
           Item(Key.link, JStr(<<>>))>>)

WavesRecords == {WavesSoonEvent, WavesLaterEvent, WavesTBAEvent}

\* the sequences of at most n distinct elements of S
DistinctSeqsUpTo(S, n) ==
    {<<>>} \cup {s \in SeqsUpTo(S, n) : \A i, j \in 1..Len(s) : i # j => s[i] # s[j]}

\* n records that differ in their names, all ending on 2025-03-13
ManyEvents(n) ==
    [k \in 1..n |-> JDict(DictPut(LaterEvent.items, Key.name, JStr(<<"E", "v", "e", "n", "t", " ">> \o Dec(k))))]

\* the lengths of the long snapshots: the limit of an embed, one more, and
\* past twice the limit
ManyLengths == {EmbedFieldLimit, EmbedFieldLimit + 1, MaxManyEvents}

\* what load_events returns for events.json
GenshinSnapshots ==
    DistinctSeqsUpTo(GenshinRecords, MaxSnapshot) \cup {ManyEvents(n) : n \in ManyLengths}

\* what it returns for wuthering_waves_events.json
WavesSnapshots ==
    DistinctSeqsUpTo(WavesRecords, MaxSnapshot) \cup {ManyEvents(n) : n \in ManyLengths}

\* the snapshots of the two games on the disk of discord_bot_updated.py
SnapshotPairs ==
    {<<g, <<>>>> : g \in GenshinSnapshots} \cup {<<<<>>, w>> : w \in WavesSnapshots}
        \cup {<<<<SoonEvent, BlankEndEvent>>, <<WavesSoonEvent, WavesTBAEvent>>>>}

\* the role names given to set_alert_role: a role of the server, and none
RoleNames == {GuildRoles[2], <<"g", "h", "o", "s", "t", "s">>}

(***************************************************************************)
(* State.  Each part of the program has its own variables; a specification *)
(* of one part leaves the others at rest.                                  *)
(***************************************************************************)
VARIABLES
    dpc,                      \* date pipeline: the step reached for the current row
    duration_cell,            \* date pipeline: the duration cell of the row
    cell_dates,               \* date pipeline: what extract_dates_from_duration_cell returned
    event_data,               \* date pipeline: the record before validation
    validated,                \* validate_and_format_dates(event_data)
    revalidated,              \* validate_and_format_dates(validated)
    rpc,                      \* reward extractor: "page" before scrape_rewards, "done" after
    scraper,                  \* reward extractor: the scraper whose scrape_rewards runs
    page,                     \* reward extractor: the detail page
    rewards,                  \* reward extractor: the mapping scrape_rewards returned
    fpc,                      \* reward formatter: "call" before format_rewards, "done" after
    reward_data,              \* reward formatter: the argument of format_rewards
    formatted,                \* reward formatter: the str format_rewards returned
    files,                    \* the directory: the text of each snapshot file, None when it does not exist
    epc,                      \* event-list extractor: "index" before the scraper runs, "done" after
    extractor,                \* event-list extractor: the scraper that runs
    index_page,               \* event-list extractor: the index page the scraper fetches
    template,                 \* event-list extractor: waves_template.txt
    events,                   \* event-list extractor: what the scraper returned
    traffic,                  \* event-list extractor: the requests of detail pages and the sleeps of the run, in order
    ppc,                      \* persistence: "start", "saved" after a save, "loaded" after load_events
    data,                     \* persistence: the list of event records given to the save function
    saver,                    \* persistence: the scraper whose save function ran
    saved_file,               \* persistence: the file the save function wrote, "none" before
    loader,                   \* persistence: the bot whose load_events ran
    game_type,                \* persistence: the argument of load_events
    loaded,                   \* persistence: the outcome of load_events
    bot,                      \* bot: the bot program that runs
    refresh_pc,               \* bot: the position of refresh_events
    refreshes,                \* bot: the refresh commands that have arrived
    scripts,                  \* bot: the scraper scripts refresh_events has still to run
    process,                  \* bot: the scraper process: "none", "running" or "exited"
    loop_thread,              \* bot: "free" when the event loop can run a handler, else the coroutine that holds the thread
    received,                 \* bot: the other commands and deadline checks that have arrived
    handled,                  \* bot: how many of them a handler has completed
    exit_code,                \* bot: the return code of the scraper process that exited
    runs,                     \* bot: the calls of run_scraper of the current refresh: started, return code, what it returned
    report,                   \* bot: the last message of refresh_events: "success", "error", "no events", "issues"
    last_scrape,              \* bot: the script of the last scraper process that exited with 0, and the events it scraped
    qpc,                      \* quantity parser: "call" before parse_quantity, "done" after
    quantity_text,            \* quantity parser: the argument of parse_quantity
    quantity,                 \* quantity parser: the int parse_quantity returned
    gpc,                      \* range splitter: "call" before extract_dates_from_string, "done" after
    date_range_str,           \* range splitter: the argument of extract_dates_from_string
    range_dates,              \* range splitter: the pair extract_dates_from_string returned
    ipc,                      \* infobox dates: "call" before extract_dates_from_infobox, "done" after
    infobox_scraper,          \* infobox dates: the scraper whose extract_dates_from_infobox runs
    infobox,                  \* infobox dates: the rows of the infobox
    date_text,                \* infobox dates: the text of the last call of extract_dates_from_text
    found_dates,              \* infobox dates: what that call of extract_dates_from_text returned
    infobox_dates,            \* infobox dates: the mapping extract_dates_from_infobox built
    infobox_raised,           \* infobox dates: extract_dates_from_infobox raised to its caller
    vpc,                      \* event display: "run" while the bot runs
    display_bot,              \* event display: the program that runs, discord_bot.py or discord_bot_updated.py
    current_date,             \* event display: datetime.datetime.now()
    genshin_snapshot,         \* event display: what load_events returns for the Genshin events
    waves_snapshot,           \* event display: what load_events returns for the Wuthering Waves events
    NOTIFICATION_CHANNEL_ID,  \* event display: the id of the notification channel, 0 for None
    NOTIFICATION_ROLE_NAME,   \* event display: the name of the role the alerts ping
    handlers_run,             \* event display: the handlers that ran
    last_handler,             \* event display: the handler that ran last
    formatted_events,         \* event display: what the last call of get_formatted_events returned
    sent,                     \* event display: the messages the last handler sent
    handler_raised            \* event display: the last handler raised to its caller

dateVars == <<dpc, duration_cell, cell_dates, event_data, validated, revalidated>>

rewardVars == <<rpc, scraper, page, rewards>>

formatVars == <<fpc, reward_data, formatted>>

diskVars == <<files>>

indexVars == <<epc, extractor, index_page, template, events, traffic>>

persistVars == <<ppc, data, saver, saved_file, loader, game_type, loaded>>

botVars == <<bot, refresh_pc, refreshes, scripts, process, loop_thread, received, handled, exit_code, runs, report, last_scrape>>

quantityVars == <<qpc, quantity_text, quantity>>

rangeVars == <<gpc, date_range_str, range_dates>>

infoboxVars == <<ipc, infobox_scraper, infobox, date_text, found_dates, infobox_dates, infobox_raised>>

displayVars == <<vpc, display_bot, current_date, genshin_snapshot, waves_snapshot, NOTIFICATION_CHANNEL_ID, NOTIFICATION_ROLE_NAME, handlers_run, last_handler, formatted_events, sent, handler_raised>>

vars == <<dateVars, rewardVars, formatVars, diskVars, indexVars, persistVars, botVars, quantityVars, rangeVars, infoboxVars, displayVars>>

\* a row without a duration cell, and a record without dates
NoCell == [data_sort_value |-> None, text |-> <<>>]

NoEvent == [name |-> <<>>, start_date |-> <<>>, end_date |-> <<>>]

\* the date pipeline at rest
IdleDates ==
    /\ dpc = "idle"
    /\ duration_cell = NoCell
    /\ cell_dates = [start_date |-> None, end_date |-> None]
    /\ event_data = NoEvent
    /\ validated = NoEvent
    /\ revalidated = NoEvent

\* the reward extractors at rest
IdleRewards ==
    /\ rpc = "idle"
    /\ scraper = "none"
    /\ page = <<>>
    /\ rewards = <<>>

\* the reward formatter at rest
IdleFormat ==
    /\ fpc = "idle"
    /\ reward_data = [type |-> "NoneType", list |-> <<>>, dict |-> <<>>, str |-> <<>>]
    /\ formatted = <<>>

\* the snapshot files at rest
IdleDisk ==
    /\ files = [f \in FileNames |-> None]

\* the event-list extractors at rest
IdleIndex ==
    /\ epc = "idle"
    /\ extractor = "none"
    /\ index_page = <<>>
    /\ template = NoTemplate
    /\ events = JNull
    /\ traffic = <<>>

\* the persistence at rest
IdlePersist ==
    /\ ppc = "idle"
    /\ data = JNull
    /\ saver = "none"
    /\ saved_file = "none"
    /\ loader = "none"
    /\ game_type = None
    /\ loaded = [raised |-> FALSE, value |-> JNull]

\* the bot at rest
IdleBot ==
    /\ bot = "none"
    /\ refresh_pc = "idle"
    /\ refreshes = 0
    /\ scripts = <<>>
    /\ process = "none"
    /\ loop_thread = "free"
    /\ received = 0
    /\ handled = 0
    /\ exit_code = 0
    /\ runs = <<>>
    /\ report = "none"
    /\ last_scrape = [script |-> "none", events |-> JNull]

\* the quantity parser at rest
IdleQuantity ==
    /\ qpc = "idle"
    /\ quantity_text = <<>>
    /\ quantity = 0

\* the range splitter at rest
IdleRange ==
    /\ gpc = "idle"
    /\ date_range_str = <<>>
    /\ range_dates = [start_date |-> None, end_date |-> None]

\* the infobox dates at rest
IdleInfobox ==
    /\ ipc = "idle"
    /\ infobox_scraper = "none"
    /\ infobox = <<>>
    /\ date_text = <<>>
    /\ found_dates = <<>>
    /\ infobox_dates = [start_date |-> <<>>, end_date |-> <<>>]
    /\ infobox_raised = FALSE

\* the event display at rest
IdleDisplay ==
    /\ vpc = "idle"
    /\ display_bot = "none"
    /\ current_date = FarFuture
    /\ genshin_snapshot = <<>>
    /\ waves_snapshot = <<>>
    /\ NOTIFICATION_CHANNEL_ID = 0
    /\ NOTIFICATION_ROLE_NAME = <<>>
    /\ handlers_run = 0
    /\ last_handler = "none"
    /\ formatted_events = <<>>
    /\ sent = <<>>
    /\ handler_raised = FALSE

\* what a step of the date pipeline leaves alone, and the rest of the program at rest
exceptDates == <<rewardVars, formatVars, diskVars, indexVars, persistVars, botVars, quantityVars, rangeVars, infoboxVars, displayVars>>

OnlyDates == IdleRewards /\ IdleFormat /\ IdleDisk /\ IdleIndex /\ IdlePersist /\ IdleBot /\ IdleQuantity /\ IdleRange /\ IdleInfobox /\ IdleDisplay

\* what a step of the reward extractors leaves alone, and the rest of the program at rest
exceptRewards == <<dateVars, formatVars, diskVars, indexVars, persistVars, botVars, quantityVars, rangeVars, infoboxVars, displayVars>>

OnlyRewards == IdleDates /\ IdleFormat /\ IdleDisk /\ IdleIndex /\ IdlePersist /\ IdleBot /\ IdleQuantity /\ IdleRange /\ IdleInfobox /\ IdleDisplay

\* what a step of the reward formatter leaves alone, and the rest of the program at rest
exceptFormat == <<dateVars, rewardVars, diskVars, indexVars, persistVars, botVars, quantityVars, rangeVars, infoboxVars, displayVars>>

OnlyFormat == IdleDates /\ IdleRewards /\ IdleDisk /\ IdleIndex /\ IdlePersist /\ IdleBot /\ IdleQuantity /\ IdleRange /\ IdleInfobox /\ IdleDisplay

\* what a step of the event-list extractors leaves alone, and the rest of the program at rest
exceptIndex == <<dateVars, rewardVars, formatVars, persistVars, botVars, quantityVars, rangeVars, infoboxVars, displayVars>>

OnlyIndex == IdleDates /\ IdleRewards /\ IdleFormat /\ IdlePersist /\ IdleBot /\ IdleQuantity /\ IdleRange /\ IdleInfobox /\ IdleDisplay

\* what a step of the persistence leaves alone, and the rest of the program at rest
exceptPersist == <<dateVars, rewardVars, formatVars, indexVars, botVars, quantityVars, rangeVars, infoboxVars, displayVars>>

OnlyPersist == IdleDates /\ IdleRewards /\ IdleFormat /\ IdleIndex /\ IdleBot /\ IdleQuantity /\ IdleRange /\ IdleInfobox /\ IdleDisplay

\* what a step of the bot leaves alone, and the rest of the program at rest
exceptBot == <<dateVars, rewardVars, formatVars, indexVars, persistVars, quantityVars, rangeVars, infoboxVars, displayVars>>

OnlyBot == IdleDates /\ IdleRewards /\ IdleFormat /\ IdleIndex /\ IdlePersist /\ IdleQuantity /\ IdleRange /\ IdleInfobox /\ IdleDisplay

\* what a step of the quantity parser leaves alone, and the rest of the program at rest
exceptQuantity == <<dateVars, rewardVars, formatVars, diskVars, indexVars, persistVars, botVars, rangeVars, infoboxVars, displayVars>>

OnlyQuantity == IdleDates /\ IdleRewards /\ IdleFormat /\ IdleDisk /\ IdleIndex /\ IdlePersist /\ IdleBot /\ IdleRange /\ IdleInfobox /\ IdleDisplay

\* what a step of the range splitter leaves alone, and the rest of the program at rest
exceptRange == <<dateVars, rewardVars, formatVars, diskVars, indexVars, persistVars, botVars, quantityVars, infoboxVars, displayVars>>

OnlyRange == IdleDates /\ IdleRewards /\ IdleFormat /\ IdleDisk /\ IdleIndex /\ IdlePersist /\ IdleBot /\ IdleQuantity /\ IdleInfobox /\ IdleDisplay

\* what a step of the infobox dates leaves alone, and the rest of the program at rest
exceptInfobox == <<dateVars, rewardVars, formatVars, diskVars, indexVars, persistVars, botVars, quantityVars, rangeVars, displayVars>>

OnlyInfobox == IdleDates /\ IdleRewards /\ IdleFormat /\ IdleDisk /\ IdleIndex /\ IdlePersist /\ IdleBot /\ IdleQuantity /\ IdleRange /\ IdleDisplay

\* what a step of the event display leaves alone, and the rest of the program at rest
exceptDisplay == <<dateVars, rewardVars, formatVars, diskVars, indexVars, persistVars, botVars, quantityVars, rangeVars, infoboxVars>>

OnlyDisplay == IdleDates /\ IdleRewards /\ IdleFormat /\ IdleDisk /\ IdleIndex /\ IdlePersist /\ IdleBot /\ IdleQuantity /\ IdleRange /\ IdleInfobox

(***************************************************************************)
(* The date pipeline: one row of the index table is taken through          *)
(* extract_dates_from_duration_cell, the "Process dates" step and          *)
(* validate_and_format_dates; validate_and_format_dates is also applied to *)
(* records with arbitrary date strings, and a second time to its result.   *)
(***************************************************************************)
InitDates ==
    /\ OnlyDates
    /\ cell_dates = [start_date |-> None, end_date |-> None]
    /\ validated = NoEvent
    /\ revalidated = NoEvent
    /\ \/ /\ dpc = "row"
          /\ duration_cell \in DurationCells
          /\ event_data = NoEvent
       \/ /\ dpc = "validate"
          /\ duration_cell = NoCell
          /\ event_data \in [name : {EventName}, start_date : DateStrings, end_date : DateStrings]

\* scrape_waves_events, one table row: the dates of the duration cell, put in
\* chronological order when both parse
ExtractRowDates ==
    /\ dpc = "row"
    /\ cell_dates' = extract_dates_from_duration_cell(duration_cell)
    /\ LET dates == ProcessDates(cell_dates'.start_date, cell_dates'.end_date)
       IN  event_data' = [name |-> EventName, start_date |-> dates.start_date,
                          end_date |-> dates.end_date]
    /\ dpc' = "validate"
    /\ UNCHANGED <<duration_cell, validated, revalidated, exceptDates>>

\* event_data = validate_and_format_dates(event_data)
Validate ==
    /\ dpc = "validate"
    /\ validated' = validate_and_format_dates(event_data)
    /\ dpc' = "validated"
    /\ UNCHANGED <<duration_cell, cell_dates, event_data, revalidated, exceptDates>>

\* the repair applied again to a validated record
Revalidate ==
    /\ dpc = "validated"
    /\ revalidated' = validate_and_format_dates(validated)
    /\ dpc' = "revalidated"
    /\ UNCHANGED <<duration_cell, cell_dates, event_data, validated, exceptDates>>

NextDates == ExtractRowDates \/ Validate \/ Revalidate

SpecDates == InitDates /\ [][NextDates]_vars

(***************************************************************************)
(* The reward extractors: scrape_rewards of genshin_final.py or of          *)
(* waves_fixed.py, or scrape_event_rewards of genshin_fixed.py, is applied *)
(* to one event page.                                                      *)
(***************************************************************************)
InitRewards ==
    /\ OnlyRewards
    /\ rpc = "page"
    /\ rewards = <<>>
    /\ \/ scraper = "genshin_final" /\ page \in GenshinPages
       \/ scraper = "waves_fixed" /\ page \in WavesPages
       \/ scraper = "genshin_fixed" /\ page \in DetailPages

\* scrape_rewards(url) of genshin_final.py
GenshinRewards ==
    /\ rpc = "page" /\ scraper = "genshin_final"
    /\ rewards' = GenshinScrapeRewards(page)
    /\ rpc' = "done"
    /\ UNCHANGED <<scraper, page, exceptRewards>>

\* scrape_rewards(url) of waves_fixed.py
WavesRewards ==
    /\ rpc = "page" /\ scraper = "waves_fixed"
    /\ rewards' = WavesScrapeRewards(page)
    /\ rpc' = "done"
    /\ UNCHANGED <<scraper, page, exceptRewards>>

\* scrape_event_rewards(detail_url) of genshin_fixed.py
GenshinFixedRewards ==
    /\ rpc = "page" /\ scraper = "genshin_fixed"
    /\ rewards' = scrape_event_rewards(page)
    /\ rpc' = "done"
    /\ UNCHANGED <<scraper, page, exceptRewards>>

NextRewards == GenshinRewards \/ WavesRewards \/ GenshinFixedRewards

SpecRewards == InitRewards /\ [][NextRewards]_vars

(***************************************************************************)
(* The reward formatter: format_rewards of discord_bot_updated.py is       *)
(* applied to the rewards field of one record.                             *)
(***************************************************************************)
InitFormat ==
    /\ OnlyFormat
    /\ fpc = "call"
    /\ reward_data \in RewardArguments
    /\ formatted = <<>>

\* format_rewards(reward_data)
FormatRewards ==
    /\ fpc = "call"
    /\ formatted' = format_rewards(reward_data)
    /\ fpc' = "done"
    /\ UNCHANGED <<reward_data, exceptFormat>>

NextFormat == FormatRewards

SpecFormat == InitFormat /\ [][NextFormat]_vars

(***************************************************************************)
(* The event-list extractors: one scraper program runs on the index page   *)
(* it fetches and writes its snapshot file.                                *)
(***************************************************************************)
InitIndex ==
    /\ OnlyIndex
    /\ epc = "index"
    /\ events = JNull
    /\ traffic = <<>>
    /\ \/ /\ extractor = "genshin_final"
          /\ index_page \in GenshinFinalPages
          /\ template = NoTemplate
       \/ /\ extractor = "waves_final"
          /\ index_page \in WavesFinalPages
          /\ template = NoTemplate
       \/ /\ extractor = "genshin_fixed"
          /\ index_page \in GenshinFixedPages
          /\ template = NoTemplate
       \/ /\ extractor = "waves_fixed"
          /\ index_page \in WavesFixedPages
          /\ template \in Templates
    /\ \E earlier \in BOOLEAN :
           files = [f \in FileNames |->
                       IF earlier /\ f = OutputFile(extractor)
                       THEN JsonDumps(EarlierEvents, indent) ELSE None]

\* main() of genshin_final.py
RunGenshinFinal ==
    /\ epc = "index"
    /\ extractor = "genshin_final"
    /\ LET events_data == scrape_genshin_events(index_page)
       IN  /\ events' = events_data
           /\ files' = IF NonEmpty(events_data)
                       THEN save_to_json(files, events_data, "genshin_combined.json")
                       ELSE files
    /\ traffic' = scrape_genshin_events_traffic(index_page)
    /\ epc' = "done"
    /\ UNCHANGED <<extractor, index_page, template, exceptIndex>>

\* scrape_waves_events() of waves_final.py
RunWavesFinal ==
    /\ epc = "index"
    /\ extractor = "waves_final"
    /\ LET events_data == WavesFinalEvents(index_page)
       IN  /\ events' = events_data
           /\ files' = IF NonEmpty(events_data)
                       THEN save_to_json(files, events_data, "waves_events.json")
                       ELSE files
    /\ traffic' = WavesFinalEventsTraffic(index_page)
    /\ epc' = "done"
    /\ UNCHANGED <<extractor, index_page, template, exceptIndex>>

\* the main block of genshin_fixed.py
RunGenshinFixed ==
    /\ epc = "index"
    /\ extractor = "genshin_fixed"
    /\ LET current_events == scrape_genshin_impact_events(index_page)
       IN  /\ events' = current_events
           /\ files' = WriteJson(files, "genshin_impact_current_events.json",
                                 (IF NonEmpty(current_events) THEN current_events ELSE JList(<<>>)),
                                 OutputIndent)
    /\ traffic' = scrape_genshin_impact_events_traffic(index_page)
    /\ epc' = "done"
    /\ UNCHANGED <<extractor, index_page, template, exceptIndex>>

\* scrape_waves_events() of waves_fixed.py
RunWavesFixed ==
    /\ epc = "index"
    /\ extractor = "waves_fixed"
    /\ LET scraped == WavesFixedEvents(index_page, template)
       IN  /\ events' = scraped
           /\ files' = save_events_to_json(files, scraped, "waves_events.json")
    /\ traffic' = WavesFixedTraffic(index_page, template)
    /\ epc' = "done"
    /\ UNCHANGED <<extractor, index_page, template, exceptIndex>>

NextIndex == RunGenshinFinal \/ RunWavesFinal \/ RunGenshinFixed \/ RunWavesFixed

SpecIndex == InitIndex /\ [][NextIndex]_vars

(***************************************************************************)
(* The persistence: a list of event records is written by the save         *)
(* function of a scraper, and load_events of a bot reads a snapshot file.  *)
(***************************************************************************)
InitPersist ==
    /\ OnlyPersist
    /\ ppc = "start"
    /\ data \in EventLists
    /\ saver = "none"
    /\ saved_file = "none"
    /\ loader = "none"
    /\ game_type = None
    /\ loaded = [raised |-> FALSE, value |-> JNull]
    /\ \E genshin, waves \in FileTexts :
           files = [f \in FileNames |->
                       IF f = "genshin_combined.json" THEN genshin
                       ELSE IF f = "wuthering_waves_current_events.json" THEN waves
                       ELSE None]

\* save_to_json(data, filename) of genshin_final.py
SaveToJson ==
    /\ ppc = "start"
    /\ \E filename \in FileNames :
           /\ files' = save_to_json(files, data, filename)
           /\ saved_file' = filename
    /\ saver' = "genshin_final"
    /\ ppc' = "saved"
    /\ UNCHANGED <<data, loader, game_type, loaded, exceptPersist>>

\* save_events_to_json(data, filename) of waves_fixed.py
SaveEventsToJson ==
    /\ ppc = "start"
    /\ \E filename \in FileNames :
           /\ files' = save_events_to_json(files, data, filename)
           /\ saved_file' = filename
    /\ saver' = "waves_fixed"
    /\ ppc' = "saved"
    /\ UNCHANGED <<data, loader, game_type, loaded, exceptPersist>>

\* load_events() of discord_bot.py
LoadEvents ==
    /\ ppc \in {"start", "saved"}
    /\ loader' = "discord_bot"
    /\ loaded' = DiscordBotLoadEvents(files)
    /\ ppc' = "loaded"
    /\ UNCHANGED <<data, saver, saved_file, game_type, files, exceptPersist>>

\* load_events(game_type) of discord_bot_updated.py
LoadGameEvents ==
    /\ ppc \in {"start", "saved"}
    /\ \E game \in GameTypes :
           /\ game_type' = game
           /\ loaded' = load_events(files, game)
    /\ loader' = "discord_bot_updated"
    /\ ppc' = "loaded"
    /\ UNCHANGED <<data, saver, saved_file, files, exceptPersist>>

NextPersist == SaveToJson \/ SaveEventsToJson \/ LoadEvents \/ LoadGameEvents

SpecPersist == InitPersist /\ [][NextPersist]_vars

(***************************************************************************)
(* The bot: commands and deadline checks arrive, the event loop runs their *)
(* handlers, and refresh_events runs the scraper scripts one after the     *)
(* other through run_scraper.                                              *)
(***************************************************************************)
InitBot ==
    /\ OnlyBot
    /\ bot \in {"discord_bot", "discord_bot_updated"}
    /\ refresh_pc = "idle"
    /\ refreshes = 0
    /\ scripts = <<>>
    /\ process = "none"
    /\ loop_thread = "free"
    /\ received = 0
    /\ handled = 0
    /\ exit_code = 0
    /\ runs = <<>>
    /\ report = "none"
    /\ last_scrape = [script |-> "none", events |-> JNull]
    /\ files = [f \in FileNames |-> None]

\* a command other than refresh arrives, or the deadline check falls due
CommandArrives ==
    /\ received < MaxCommands
    /\ received' = received + 1
    /\ UNCHANGED <<bot, refresh_pc, refreshes, scripts, process, loop_thread, handled,
                   exit_code, runs, report, last_scrape, files, exceptBot>>

\* the event loop runs the handler of a command that has arrived, or
\* check_deadlines
HandleCommand ==
    /\ loop_thread = "free"
    /\ handled < received
    /\ handled' = handled + 1
    /\ UNCHANGED <<bot, refresh_pc, refreshes, scripts, process, loop_thread, received,
                   exit_code, runs, report, last_scrape, files, exceptBot>>

\* refresh_events, up to its first call of run_scraper
RefreshEvents ==
    /\ loop_thread = "free"
    /\ refresh_pc \in {"idle", "done"}
    /\ refreshes < MaxRefreshes
    /\ refreshes' = refreshes + 1
    /\ scripts' = ScraperScripts(bot)
    /\ runs' = <<>>
    /\ report' = "none"
    /\ refresh_pc' = "call"
    /\ UNCHANGED <<bot, process, loop_thread, received, handled, exit_code, last_scrape, files,
                   exceptBot>>

\* run_scraper(file_path) starts the scraper process and waits for it
RunScraper ==
    /\ loop_thread = "free"
    /\ refresh_pc = "call"
    /\ process' = "running"
    /\ loop_thread' = IF HoldsThread(bot) THEN "run_scraper" ELSE "free"
    /\ refresh_pc' = "wait"
    /\ UNCHANGED <<bot, refreshes, scripts, received, handled, exit_code, runs, report,
                   last_scrape, files, exceptBot>>

\* run_scraper(file_path) cannot start the process: it returns False, and
\* refresh_events goes on to the next script or to its last message
ScraperNotStarted ==
    /\ loop_thread = "free"
    /\ refresh_pc = "call"
    /\ runs' = Append(runs, [started |-> FALSE, returncode |-> -1,
                             success |-> RunScraperResult(FALSE, -1)])
    /\ scripts' = Tail(scripts)
    /\ refresh_pc' = IF Tail(scripts) = <<>> THEN "done" ELSE "call"
    /\ report' = IF Tail(scripts) = <<>> THEN RefreshReport(bot, runs', files) ELSE report
    /\ UNCHANGED <<bot, refreshes, process, loop_thread, received, handled, exit_code,
                   last_scrape, files, exceptBot>>

\* the scraper process exits: with return code 0 after it has last_scrape its
\* events and written its file, with another code without writing
ScraperExits ==
    /\ process = "running"
    /\ process' = "exited"
    /\ \E returncode \in ReturnCodes, events_data \in ScrapedLists :
           /\ exit_code' = returncode
           /\ IF returncode = 0
              THEN /\ files' = ScriptWrites(files, Head(scripts), events_data)
                   /\ last_scrape' = [script |-> Head(scripts), events |-> events_data]
              ELSE UNCHANGED <<files, last_scrape>>
    /\ UNCHANGED <<bot, refresh_pc, refreshes, scripts, loop_thread, received, handled,
                   runs, report, exceptBot>>

\* run_scraper returns to refresh_events, which goes on to the next script
\* or to its last message
ScraperReturns ==
    /\ refresh_pc = "wait"
    /\ process = "exited"
    /\ loop_thread = (IF HoldsThread(bot) THEN "run_scraper" ELSE "free")
    /\ process' = "none"
    /\ loop_thread' = "free"
    /\ runs' = Append(runs, [started |-> TRUE, returncode |-> exit_code,
                             success |-> RunScraperResult(TRUE, exit_code)])
    /\ scripts' = Tail(scripts)
    /\ refresh_pc' = IF Tail(scripts) = <<>> THEN "done" ELSE "call"
    /\ report' = IF Tail(scripts) = <<>> THEN RefreshReport(bot, runs', files) ELSE report
    /\ UNCHANGED <<bot, refreshes, received, handled, exit_code, last_scrape, files, exceptBot>>

NextBot ==
    \/ CommandArrives \/ HandleCommand \/ RefreshEvents
    \/ RunScraper \/ ScraperNotStarted \/ ScraperExits \/ ScraperReturns

SpecBot == InitBot /\ [][NextBot]_vars

(***************************************************************************)
(* The quantity parser: parse_quantity of genshin_fixed.py is applied to   *)
(* one quantity text.                                                      *)
(***************************************************************************)
InitQuantity ==
    /\ OnlyQuantity
    /\ qpc = "call"
    /\ quantity_text \in QuantityTexts
    /\ quantity = 0

\* final_reward_quantity = parse_quantity(quantity_text)
ParseQuantity ==
    /\ qpc = "call"
    /\ quantity' = parse_quantity(quantity_text)
    /\ qpc' = "done"
    /\ UNCHANGED <<quantity_text, exceptQuantity>>

NextQuantity == ParseQuantity

SpecQuantity == InitQuantity /\ [][NextQuantity]_vars

(***************************************************************************)
(* The range splitter: extract_dates_from_string of discord_bot_updated.py *)
(* is applied to one date range string.                                    *)
(***************************************************************************)
InitRange ==
    /\ OnlyRange
    /\ gpc = "call"
    /\ date_range_str \in DateRangeTexts
    /\ range_dates = [start_date |-> None, end_date |-> None]

\* start_date_str, end_date_str = extract_dates_from_string(event['dates'])
ExtractRangeDates ==
    /\ gpc = "call"
    /\ range_dates' = extract_dates_from_string(date_range_str)
    /\ gpc' = "done"
    /\ UNCHANGED <<date_range_str, exceptRange>>

NextRange == ExtractRangeDates

SpecRange == InitRange /\ [][NextRange]_vars

(***************************************************************************)
(* The infobox dates: extract_dates_from_infobox of waves_fixed.py or of   *)
(* waves_final.py is applied to the infobox of one event page.             *)
(***************************************************************************)
InitInfobox ==
    /\ OnlyInfobox
    /\ ipc = "call"
    /\ infobox_scraper \in {"waves_fixed", "waves_final"}
    /\ infobox \in Infoboxes
    /\ date_text = <<>>
    /\ found_dates = <<>>
    /\ infobox_dates = NoDates
    /\ infobox_raised = FALSE

\* infobox_dates = extract_dates_from_infobox(infobox) of waves_fixed.py
ExtractInfoboxDates ==
    /\ ipc = "call" /\ infobox_scraper = "waves_fixed"
    /\ LET outcome == WavesFixedInfoboxDates(infobox)
       IN  /\ date_text' = outcome.date_text
           /\ found_dates' = outcome.dates
           /\ infobox_dates' = outcome.result
           /\ infobox_raised' = outcome.raised
    /\ ipc' = "done"
    /\ UNCHANGED <<infobox_scraper, infobox, exceptInfobox>>

\* event_data.update(extract_dates_from_infobox(infobox)) of waves_final.py
UpdateFromInfobox ==
    /\ ipc = "call" /\ infobox_scraper = "waves_final"
    /\ LET outcome == WavesFinalInfoboxDates(infobox)
       IN  /\ date_text' = outcome.date_text
           /\ found_dates' = outcome.dates
           /\ infobox_dates' = outcome.result
           /\ infobox_raised' = outcome.raised
    /\ ipc' = "done"
    /\ UNCHANGED <<infobox_scraper, infobox, exceptInfobox>>

NextInfobox == ExtractInfoboxDates \/ UpdateFromInfobox

SpecInfobox == InitInfobox /\ [][NextInfobox]_vars

(***************************************************************************)
(* The event display: discord_bot.py or discord_bot_updated.py runs over   *)
(* the snapshots on its disk; the commands that show the events and set    *)
(* the alert channel and role arrive, and the deadline check runs, in any  *)
(* order.                                                                  *)
(***************************************************************************)
InitDisplay ==
    /\ OnlyDisplay
    /\ vpc = "run"
    /\ display_bot \in {"discord_bot", "discord_bot_updated"}
    /\ current_date \in RunDates
    /\ IF display_bot = "discord_bot"
       THEN /\ genshin_snapshot \in GenshinSnapshots
            /\ waves_snapshot = <<>>
            /\ NOTIFICATION_ROLE_NAME = <<"g", "e", "n", "s", "h", "i", "t">>
       ELSE /\ \E pair \in SnapshotPairs :
                   genshin_snapshot = pair[1] /\ waves_snapshot = pair[2]
            /\ NOTIFICATION_ROLE_NAME = GuildRoles[1]
    /\ NOTIFICATION_CHANNEL_ID = 0
    /\ handlers_run = 0
    /\ last_handler = "none"
    /\ formatted_events = <<>>
    /\ sent = <<>>
    /\ handler_raised = FALSE

\* a handler of the program starts
Handles(program, handler) ==
    /\ vpc = "run" /\ display_bot = program
    /\ handlers_run < MaxHandlers
    /\ handlers_run' = handlers_run + 1
    /\ last_handler' = handler

\* the handler shows the events of a game
Shows(program, game, snapshot) ==
    /\ formatted_events' = get_formatted_events(program, game, snapshot, current_date)
    /\ LET outcome == ShowEventsOutcome(program, game, formatted_events', current_date)
       IN  /\ sent' = outcome.sent
           /\ handler_raised' = outcome.raised
    /\ UNCHANGED <<vpc, display_bot, current_date, genshin_snapshot, waves_snapshot,
                   NOTIFICATION_CHANNEL_ID, NOTIFICATION_ROLE_NAME, exceptDisplay>>

\* !events of discord_bot.py
ShowEvents ==
    /\ Handles("discord_bot", "show_events")
    /\ Shows("discord_bot", "genshin", genshin_snapshot)

\* /genshin of discord_bot_updated.py
ShowGenshinEvents ==
    /\ Handles("discord_bot_updated", "show_genshin_events")
    /\ Shows("discord_bot_updated", "genshin", genshin_snapshot)

\* /waves of discord_bot_updated.py
ShowWavesEvents ==
    /\ Handles("discord_bot_updated", "show_waves_events")
    /\ Shows("discord_bot_updated", "waves", waves_snapshot)

\* set_alert_channel of either program, in the channel of id 1
SetAlertChannel ==
    /\ Handles(display_bot, "set_alert_channel")
    /\ NOTIFICATION_CHANNEL_ID' = 1
    /\ sent' = <<Message("reply", <<"check">> \o <<" ", "T", "h", "i", "s", " ", "c", "h", "a", "n", "n", "e", "l", " ", "h", "a", "s", " ", "b", "e", "e", "n", " ", "s", "e", "t", " ", "a", "s", " ", "t", "h", "e", " ", "a", "l", "e", "r", "t", " ", "n", "o", "t", "i", "f", "i", "c", "a", "t", "i", "o", "n", " ", "c", "h", "a", "n", "n", "e", "l", ".">>, NoEmbed)>>
    /\ handler_raised' = FALSE
    /\ UNCHANGED <<vpc, display_bot, current_date, genshin_snapshot, waves_snapshot,
                   NOTIFICATION_ROLE_NAME, formatted_events, exceptDisplay>>

\* set_alert_role of either program
SetAlertRole ==
    /\ Handles(display_bot, "set_alert_role")
    /\ \E role_name \in RoleNames :
           IF RoleId(role_name) = 0
           THEN /\ sent' = <<Message("reply",
                                     WarningSign \o <<" ", "R", "o", "l", "e", " ", "'">> \o role_name \o <<"'", " ", "n", "o", "t", " ", "f", "o", "u", "n", "d", " ", "i", "n", " ", "t", "h", "i", "s", " ", "s", "e", "r", "v", "e", "r", ".", " ", "P", "l", "e", "a", "s", "e", " ", "c", "h", "e", "c", "k", " ", "t", "h", "e", " ", "r", "o", "l", "e", " ", "n", "a", "m", "e", " ", "a", "n", "d", " ", "t", "r", "y", " ", "a", "g", "a", "i", "n", ".">>, NoEmbed)>>
                /\ UNCHANGED NOTIFICATION_ROLE_NAME
           ELSE /\ NOTIFICATION_ROLE_NAME' = role_name
                /\ sent' = <<Message("reply",
                                     <<"check">> \o <<" ", "R", "o", "l", "e", " ", "'">> \o role_name \o <<"'", " ", "w", "i", "l", "l", " ", "n", "o", "w", " ", "b", "e", " ", "p", "i", "n", "g", "e", "d", " ", "f", "o", "r", " ", "e", "v", "e", "n", "t", " ", "d", "e", "a", "d", "l", "i", "n", "e", " ", "a", "l", "e", "r", "t", "s", ".">>, NoEmbed)>>
    /\ handler_raised' = FALSE
    /\ UNCHANGED <<vpc, display_bot, current_date, genshin_snapshot, waves_snapshot,
                   NOTIFICATION_CHANNEL_ID, formatted_events, exceptDisplay>>

\* a run of check_deadlines of discord_bot.py
CheckDeadlines ==
    /\ Handles("discord_bot", "check_deadlines")
    /\ formatted_events' =
           IF NOTIFICATION_CHANNEL_ID = 0 THEN formatted_events
           ELSE get_formatted_events("discord_bot", "genshin", genshin_snapshot, current_date)
    /\ LET outcome == DiscordBotCheckDeadlines(NOTIFICATION_CHANNEL_ID, NOTIFICATION_ROLE_NAME,
                                               formatted_events', current_date)
       IN  /\ sent' = outcome.sent
           /\ handler_raised' = outcome.raised
    /\ UNCHANGED <<vpc, display_bot, current_date, genshin_snapshot, waves_snapshot,
                   NOTIFICATION_CHANNEL_ID, NOTIFICATION_ROLE_NAME, exceptDisplay>>

\* a run of check_deadlines of discord_bot_updated.py
CheckBothDeadlines ==
    /\ Handles("discord_bot_updated", "check_deadlines")
    /\ formatted_events' =
           IF NOTIFICATION_CHANNEL_ID = 0 THEN formatted_events
           ELSE get_formatted_events("discord_bot_updated", "waves", waves_snapshot, current_date)
    /\ LET outcome ==
               UpdatedCheckDeadlines(NOTIFICATION_CHANNEL_ID, NOTIFICATION_ROLE_NAME,
                   get_formatted_events("discord_bot_updated", "genshin", genshin_snapshot,
                                        current_date),
                   get_formatted_events("discord_bot_updated", "waves", waves_snapshot,
                                        current_date),
                   current_date)
       IN  /\ sent' = outcome.sent
           /\ handler_raised' = outcome.raised
    /\ UNCHANGED <<vpc, display_bot, current_date, genshin_snapshot, waves_snapshot,
                   NOTIFICATION_CHANNEL_ID, NOTIFICATION_ROLE_NAME, exceptDisplay>>

NextDisplay ==
    \/ ShowEvents
    \/ ShowGenshinEvents
    \/ ShowWavesEvents
    \/ SetAlertChannel
    \/ SetAlertRole
    \/ CheckDeadlines
    \/ CheckBothDeadlines

SpecDisplay == InitDisplay /\ [][NextDisplay]_vars

(***************************************************************************)
(* Claims about the date pipeline.                                         *)
(***************************************************************************)
\* a date string that parses as a date, with or without a time of day
ParsesAsDate(s) ==
    IF ~Truthy(s) THEN ValueError
    ELSE IF StrptimeDateTime(s, "-").ok THEN StrptimeDateTime(s, "-")
    ELSE IF StrptimeDate(s, "-").ok THEN StrptimeDate(s, "-")
    ELSE IF StrptimeDateTime(s, "/").ok THEN StrptimeDateTime(s, "/")
    ELSE StrptimeDate(s, "/")

\* C1: in every record returned by validate_and_format_dates whose start_date
\* and end_date both parse as dates, start_date is not later than end_date,
\* compared as date-times including the time of day.
C1_StartNotAfterEnd ==
    dpc \in {"validated", "revalidated"} =>
        LET start == ParsesAsDate(validated.start_date)
            end   == ParsesAsDate(validated.end_date)
        IN  (start.ok /\ end.ok) => ~DtLess(end, start)

\* C2: validate_and_format_dates applied to its own result returns the same
\* start_date and end_date as the first application.
C2_ValidateIdempotent ==
    dpc = "revalidated" =>
        /\ revalidated.start_date = validated.start_date
        /\ revalidated.end_date = validated.end_date

\* C2 witness: the second application has run on a record whose dates the
\* first application reformatted and swapped.
C2_Witness ==
    /\ dpc = "revalidated"
    /\ Truthy(event_data.start_date) /\ Truthy(event_data.end_date)
    /\ Contains(event_data.start_date, "/")
    /\ validated.end_date = parse_and_format_date(event_data.start_date)
    /\ validated.start_date = parse_and_format_date(event_data.end_date)
    /\ validated.start_date # validated.end_date

\* a str of the fixed-width shape "YYYY-MM-DD HH:MM"
IsFixedWidthTimestamp(s) ==
    /\ Len(s) = 16
    /\ \A i \in {1, 2, 3, 4, 6, 7, 9, 10, 12, 13, 15, 16} : s[i] \in Digit
    /\ s[5] = "-" /\ s[8] = "-" /\ s[11] = " " /\ s[14] = ":"

\* the row's sortable attribute is two concatenated timestamps
TwoTimestampAttribute ==
    /\ duration_cell.data_sort_value # None
    /\ Len(duration_cell.data_sort_value) = 32
    /\ IsFixedWidthTimestamp(SubSeq(duration_cell.data_sort_value, 1, 16))
    /\ IsFixedWidthTimestamp(SubSeq(duration_cell.data_sort_value, 17, 32))

\* C5: given a duration cell whose sortable attribute is two concatenated
\* YYYY-MM-DD HH:MM timestamps, extract_dates_from_duration_cell returns the
\* second timestamp as start_date and the first as end_date.
C5_FirstIsEnd ==
    (dpc \in {"validate", "validated", "revalidated"} /\ TwoTimestampAttribute) =>
        /\ cell_dates.start_date = SubSeq(duration_cell.data_sort_value, 17, 32)
        /\ cell_dates.end_date = SubSeq(duration_cell.data_sort_value, 1, 16)

\* C5 witness: the extractor has run on a cell whose attribute is two
\* different timestamps, the later one first.
C5_Witness ==
    /\ dpc = "validate"
    /\ TwoTimestampAttribute
    /\ DtLess(StrptimeDateTime(SubSeq(duration_cell.data_sort_value, 17, 32), "-"),
              StrptimeDateTime(SubSeq(duration_cell.data_sort_value, 1, 16), "-"))
    /\ cell_dates.start_date # None

(***************************************************************************)
(* Claims about the reward extractors.                                     *)
(***************************************************************************)
\* the item name the scanning extractor reads from a card
CardName(card) ==
    IF scraper = "waves_fixed" THEN (IF card.title # <<>> THEN card.title ELSE card.text)
    ELSE IF page.heading /\ page.container THEN ContainerCardName(card)
    ELSE PlainCardName(card)

\* the cards of the page that show a numeric quantity for a name
CardsOf(name) ==
    {j \in 1..Len(page.cards) :
        /\ page.cards[j].has_link
        /\ CardName(page.cards[j]) = name
        /\ page.cards[j].qty # None
        /\ CardQuantity(page.cards[j].qty).ok}

\* the quantities the cards of the page show for a name
ObservedQuantities(name) == {CardQuantity(page.cards[j].qty).n : j \in CardsOf(name)}

\* the names that appear on more than one card with a numeric quantity
RepeatedNames ==
    {name \in {CardName(page.cards[i]) : i \in 1..Len(page.cards)} :
        name # <<>> /\ name \notin common_ui_elements /\ Cardinality(CardsOf(name)) > 1}

Max(S) == CHOOSE m \in S : \A n \in S : n <= m

\* C3: in the mapping returned by scrape_rewards, a name that appears on more
\* than one card with a numeric quantity carries the maximum of the quantities
\* its cards show, whichever path scanned the cards.
C3_MaxWins ==
    (rpc = "done" /\ page.fetched) =>
        \A name \in RepeatedNames :
            /\ DictHas(rewards, name)
            /\ DictGet(rewards, name) = Max(ObservedQuantities(name))

(***************************************************************************)
(* Claims about the reward formatter.                                      *)
(***************************************************************************)
\* the quantities of the occurrences of a name in the list, in list order
QuantitiesOf(name) ==
    LET parsed == [i \in 1..Len(reward_data.list) |-> parse_reward_string(reward_data.list[i])]
        mine   == SelectSeq(parsed, LAMBDA r : r.name = name)
    IN  [i \in 1..Len(mine) |-> mine[i].quantity]

ListedNames ==
    {parse_reward_string(reward_data.list[i]).name : i \in 1..Len(reward_data.list)}

RECURSIVE SumOf(_)
SumOf(quantities) ==
    IF quantities = <<>> THEN 0 ELSE Head(quantities).n + SumOf(Tail(quantities))

RECURSIVE LinesOf(_)
\* the lines of a text
LinesOf(text) ==
    IF \E i \in 1..Len(text) : text[i] = "\n"
    THEN LET i == CHOOSE i \in 1..Len(text) : text[i] = "\n" /\ \A j \in 1..(i - 1) : text[j] # "\n"
         IN  {SubSeq(text, 1, i - 1)} \cup LinesOf(SubSeq(text, i + 1, Len(text)))
    ELSE {text}

\* the line that shows a name with a text
LineShowing(name, text) == <<"*", "*">> \o name \o <<"*", "*", ":", " ">> \o text

\* the texts of quantities, joined by ", "
Concatenated(quantities) == Join([i \in 1..Len(quantities) |-> ToStr(quantities[i])], <<",", " ">>)

\* what the claim shows for a name: the sum when every quantity is an int,
\* else all the quantities in list order
ShownAsStated(name) ==
    LET quantities == QuantitiesOf(name)
    IN  IF \A i \in 1..Len(quantities) : quantities[i].int
        THEN Commas(SumOf(quantities))
        ELSE Concatenated(quantities)

\* what is shown for a name: the sum when every quantity is an int; else the
\* sum of the ints that come before the first quantity that is not an int (if
\* any come before it), then every quantity from that one on, in list order
ShownPairwise(name) ==
    LET quantities == QuantitiesOf(name)
    IN  IF \A i \in 1..Len(quantities) : quantities[i].int
        THEN Commas(SumOf(quantities))
        ELSE LET first == CHOOSE i \in 1..Len(quantities) :
                              ~quantities[i].int /\ \A j \in 1..(i - 1) : quantities[j].int
                 before == SubSeq(quantities, 1, first - 1)
                 rest   == SubSeq(quantities, first, Len(quantities))
             IN  IF first = 1 THEN Concatenated(rest)
                 ELSE Concatenated(<<PyInt(SumOf(before))>> \o rest)

\* C4 as stated: in list mode a name whose quantities are all ints is shown
\* with their sum, and a name with a quantity that is not an int is shown with
\* all the quantities of its occurrences concatenated in list order.
C4_AsStated ==
    (fpc = "done" /\ reward_data.type = "list") =>
        \A name \in ListedNames : LineShowing(name, ShownAsStated(name)) \in LinesOf(formatted)

\* C4, amended: in list mode a name whose quantities are all ints is shown
\* with their sum; a name with a quantity that is not an int is shown with the
\* sum of the ints that precede its first such quantity, followed by each
\* quantity from that one on, in list order, joined by ", ".
C4_PairwiseMerge ==
    (fpc = "done" /\ reward_data.type = "list") =>
        \A name \in ListedNames : LineShowing(name, ShownPairwise(name)) \in LinesOf(formatted)

\* C4 witness: a list in which two int quantities of a name precede a
\* quantity of that name that is not an int has been formatted.
C4_Witness ==
    /\ fpc = "done"
    /\ reward_data.type = "list"
    /\ \E name \in ListedNames :
        LET quantities == QuantitiesOf(name)
        IN  Len(quantities) >= 3 /\ quantities[1].int /\ quantities[2].int /\ ~quantities[3].int
    /\ formatted # NoRewardInformation

(***************************************************************************)
(* Claims about the event-list extractors.                                 *)
(***************************************************************************)
\* the value of a key of a record of a snapshot
Field(record, key) == DictGet(record.items, key)

\* the records a scraper returned (none when it returned None)
RecordsOf(returned) == IF returned.t = "list" THEN returned.items ELSE <<>>

\* C6: a run of the genshin_final or waves_final extractor emits no two
\* records with the same link value, whatever the hrefs and the anchor texts
\* of the index links.
C6_LinksDistinct ==
    (epc = "done" /\ extractor \in {"genshin_final", "waves_final"}) =>
        \A i, j \in 1..Len(RecordsOf(events)) :
            Field(RecordsOf(events)[i], Key.link) = Field(RecordsOf(events)[j], Key.link) => i = j

\* C7: on an index page that is served without a "Current" heading, the
\* genshin_fixed, genshin_final and waves_fixed extractors return an empty
\* list of records.
C7_NoHeadingEmptyList ==
    (/\ epc = "done"
     /\ extractor \in {"genshin_fixed", "genshin_final", "waves_fixed"}
     /\ index_page.status_ok
     /\ ~index_page.heading) => events = JList(<<>>)

(***************************************************************************)
(* Claims about the persistence.                                           *)
(***************************************************************************)
\* load_events was given a game: always by discord_bot.py, and by
\* discord_bot_updated.py when its argument is a str
GameGiven == loader = "discord_bot" \/ game_type # None

\* the snapshot file load_events read
FileRead == IF loader = "discord_bot" THEN "genshin_combined.json" ELSE EventsFile(game_type)

\* the file load_events read holds a JSON text
ReadableSnapshot == files[FileRead] # None /\ JsonLoads(files[FileRead]).ok

\* C8: load_events does not raise; it returns an empty list when the
\* snapshot file is absent or does not hold valid JSON, and the decoded
\* content of the file otherwise.
C8_LoadNeverRaises ==
    ppc = "loaded" =>
        /\ ~loaded.raised
        /\ GameGiven /\ ReadableSnapshot => loaded.value = JsonLoads(files[FileRead]).v
        /\ ~(GameGiven /\ ReadableSnapshot) => loaded.value = JList(<<>>)

\* load_events of discord_bot_updated.py read a snapshot cut short and
\* returned the empty list
C8_Witness ==
    /\ ppc = "loaded"
    /\ loader = "discord_bot_updated"
    /\ GameGiven
    /\ files[FileRead] = TruncatedSnapshot
    /\ loaded.value = JList(<<>>)

\* C9: when load_events reads the file that a save function has just
\* written, it returns the list of event records that was saved.
C9_RoundTrip ==
    (ppc = "loaded" /\ saved_file # "none" /\ GameGiven /\ FileRead = saved_file) =>
        loaded = [raised |-> FALSE, value |-> data]

\* two records, one with a quoted title in its name, were saved and loaded
C9_Witness ==
    /\ ppc = "loaded"
    /\ loader = "discord_bot"
    /\ saved_file = "genshin_combined.json"
    /\ Len(data.items) >= 2
    /\ \E i \in 1..Len(data.items) : Contains(Field(data.items[i], Key.name).s, "\"")
    /\ loaded.value = data

(***************************************************************************)
(* Claims about the bot.                                                   *)
(***************************************************************************)
\* C10: while a scraper process started by refresh_events is running, the
\* event loop can run the handler of a command that has arrived.
C10_LoopNotBlocked == (process = "running" /\ handled < received) => ENABLED HandleCommand

(***************************************************************************)
(* Claims about the detail pages, the failures and the output file of a    *)
(* run of an event-list extractor.                                         *)
(***************************************************************************)
\* the links the loop of the genshin_final or waves_final extractor goes over
IndexLinks ==
    IF extractor = "genshin_final" THEN GenshinEventsLinks(index_page) ELSE index_page.following

\* the link is one the extractor takes for an event
PassesFilter(link) ==
    IF extractor = "genshin_final" THEN ~GenshinSkipsLink(link, {})
    ELSE ~WavesFinalSkipsLink(link, {})

\* the i-th index link survives filtering and deduplication: it passes the
\* filter and no earlier link that passes it has the same href
Survives(i) ==
    /\ PassesFilter(IndexLinks[i])
    /\ \A j \in 1..(i - 1) :
           PassesFilter(IndexLinks[j]) => IndexLinks[j].href # IndexLinks[i].href

\* the URL of the detail page of a link
DetailUrl(link) ==
    IF extractor = "genshin_final" THEN GenshinEventLink(link.href)
    ELSE WavesFinalEventLink(link.href)

\* the request of the detail page is sent and is answered with another
\* status than 200
FetchFails(link) == ~MissingSchema(DetailUrl(link)) /\ ~link.detail_ok

\* the record has the name and the link of the index link, and empty dates
\* and rewards
BareRecordOf(record, link) ==
    /\ Field(record, Key.name) = JStr(link.text)
    /\ Field(record, Key.link) = JStr(DetailUrl(link))
    /\ Field(record, Key.start_date) = JStr(<<>>)
    /\ Field(record, Key.end_date) = JStr(<<>>)
    /\ Field(record, IF extractor = "genshin_final" THEN Key.reward_list ELSE Key.rewards)
           = JDict(<<>>)

\* C11: after a run of the genshin_final or waves_final extractor that
\* returns a list, every index link that survives filtering and
\* deduplication and whose detail page is not served with status 200 has a
\* record with its name and link and with empty dates and rewards.
C11_FailedFetchStillEmitted ==
    (epc = "done" /\ extractor \in {"genshin_final", "waves_final"} /\ events.t = "list") =>
        \A i \in 1..Len(IndexLinks) :
            (Survives(i) /\ FetchFails(IndexLinks[i])) =>
                \E k \in 1..Len(events.items) : BareRecordOf(events.items[k], IndexLinks[i])

\* the index link is one whose processing raises: requests.get rejects its URL
LinkRaises(link) == link.href # None /\ link.text # <<>> /\ MissingSchema(GenshinEventLink(link.href))

\* C12: the records a run of the genshin_final or genshin_fixed extractor
\* returns are the records it returns for the index page without the links
\* or rows whose processing raises.
C12_FailingEventSkipped ==
    epc = "done" =>
        /\ (extractor = "genshin_final" /\ events.t = "list") =>
               events.items
                   = GenshinProcessLinks(SelectSeq(GenshinEventsLinks(index_page),
                                                   LAMBDA link : ~LinkRaises(link)), {}, <<>>)
        /\ extractor = "genshin_fixed" =>
               events = scrape_genshin_impact_events(
                            [index_page EXCEPT !.rows = SelectSeq(index_page.rows,
                                                                  LAMBDA row : ~RowRaises(row))])

\* C13: after a run of a scraper its output file holds the list of the
\* records the run returned, the empty list included, whatever an earlier
\* run left in the file.
C13_FileHoldsRun ==
    epc = "done" =>
        ReadJson(files, OutputFile(extractor))
            = [raised |-> FALSE, value |-> JList(RecordsOf(events))]

\* C19: in the network traffic of a run every request of a detail page comes
\* directly after a sleep.
C19_DelayBeforeRequest ==
    epc = "done" =>
        \A i \in 1..Len(traffic) :
            traffic[i] = "request" => (i > 1 /\ traffic[i - 1] = "sleep")

\* C20: every record a run of the genshin_final, waves_final or waves_fixed
\* extractor returns has a type that is not the empty str.
C20_TypeNonEmpty ==
    (epc = "done" /\ extractor \in {"genshin_final", "waves_final", "waves_fixed"}) =>
        \A k \in 1..Len(RecordsOf(events)) :
            Field(RecordsOf(events)[k], Key.type) # JStr(<<>>)

\* the links the fetched index page shows after its Current heading and in
\* its events table
PageLinks == index_page.ul \o index_page.following \o index_page.table

\* C27: every record a run of the genshin_final extractor emits carries the
\* name and the address of a link of the fetched index page; a page that
\* shows no event link gives no record.
C27_RecordsFromPageLinks ==
    (epc = "done" /\ extractor = "genshin_final") =>
        \A r \in 1..Len(RecordsOf(events)) :
            \E i \in 1..Len(PageLinks) :
                /\ Field(RecordsOf(events)[r], Key.name) = JStr(PageLinks[i].text)
                /\ Field(RecordsOf(events)[r], Key.link) = JStr(GenshinEventLink(PageLinks[i].href))

(***************************************************************************)
(* Claims about the refresh command of the bot.                            *)
(***************************************************************************)
\* the game whose events a scraper script scrapes
GameOf(file_path) ==
    IF file_path = "genshin_final.py" THEN <<"g", "e", "n", "s", "h", "i", "n">>
    ELSE <<"w", "a", "v", "e", "s">>

\* C14: after a refresh of discord_bot_updated.py that reported success,
\* load_events for the game of the scraper it ran returns the events that
\* scraper run scraped and wrote.
C14_LoadReadsScraperFile ==
    (bot = "discord_bot_updated" /\ refresh_pc = "done" /\ report = "success") =>
        load_events(files, GameOf(last_scrape.script)).value = last_scrape.events

\* C15: when refresh_events has ended, each call of run_scraper returned
\* True exactly when the process was started and exited with code 0, and the
\* refresh reported success if every call returned True.
C15_SuccessIsCleanExit ==
    refresh_pc = "done" =>
        /\ \A i \in 1..Len(runs) :
               runs[i].success = (runs[i].started /\ runs[i].returncode = 0)
        /\ (\A i \in 1..Len(runs) : runs[i].success) => report = "success"

(***************************************************************************)
(* Claims about the fixed reward extractor (waves_fixed.py).               *)
(***************************************************************************)
\* what the heading-anchored scan, or else the table scan, produces
HeadingOrTableRewards ==
    LET heading_scan == IF page.heading THEN WavesMethod1(page.links, <<>>) ELSE <<>>
    IN  IF heading_scan # <<>> THEN heading_scan ELSE WavesMethod2(page.rows)

\* the labels of the user interface that are no rewards
DenylistedLabels ==
    {<<"S", "i", "g", "n", " ", "i", "n", " ", "t", "o", " ", "e", "d", "i", "t">>,
     <<"E", "d", "i", "t">>, <<"A", "d", "d">>, <<"S", "i", "g", "n", " ", "I", "n">>,
     <<"C", "r", "e", "a", "t", "e">>, <<"V", "i", "e", "w", " ", "s", "o", "u", "r", "c", "e">>}

\* the names of the valid cards of the page: a caption link with a name that
\* is no label, and a numeric quantity
ValidCardNames ==
    {name \in {CardName(page.cards[i]) : i \in 1..Len(page.cards)} :
        name # <<>> /\ name \notin DenylistedLabels /\ CardsOf(name) # {}}

\* C16: the keys of the mapping the fixed reward extractor returns for a
\* fetched page are the names the heading-anchored or table scan produced
\* together with the names of the valid cards, whether or not the first
\* scans produced entries.
C16_CardScanMerged ==
    (rpc = "done" /\ scraper = "waves_fixed" /\ page.fetched) =>
        DictKeys(rewards) = DictKeys(HeadingOrTableRewards) \cup ValidCardNames

\* C16 witness: the first scans produced an entry that no card shows, and a
\* valid card shows a name they did not produce.
C16_Witness ==
    /\ rpc = "done" /\ scraper = "waves_fixed" /\ page.fetched
    /\ DictKeys(HeadingOrTableRewards) \ ValidCardNames # {}
    /\ ValidCardNames \ DictKeys(HeadingOrTableRewards) # {}
    /\ DictKeys(rewards) = DictKeys(HeadingOrTableRewards) \cup ValidCardNames

\* C17: no key of the mapping the fixed reward extractor returns is one of
\* the denylisted labels.
C17_NoDenylistedKey ==
    (rpc = "done" /\ scraper = "waves_fixed") => DictKeys(rewards) \cap DenylistedLabels = {}

\* C17 witness: the extractor returned entries for a page that shows a
\* denylisted label on a card with a quantity and on a link after the
\* heading or in a row of the rewards table.
C17_Witness ==
    /\ rpc = "done" /\ scraper = "waves_fixed" /\ rewards # <<>>
    /\ \E i \in 1..Len(page.cards) :
           page.cards[i].has_link /\ page.cards[i].title \in DenylistedLabels
    /\ \/ page.heading /\ \E i \in 1..Len(page.links) : page.links[i].text \in DenylistedLabels
       \/ (~page.heading /\ \E i \in 1..Len(page.rows) : page.rows[i][1] \in DenylistedLabels)
    /\ DictKeys(rewards) \cap DenylistedLabels = {}

(***************************************************************************)
(* Claims about the fallback of the duration cell.                         *)
(***************************************************************************)
\* the sortable attribute of the row yields exactly two timestamps
YieldsTwoTimestamps ==
    /\ duration_cell.data_sort_value # None
    /\ Len(Findall(duration_cell.data_sort_value, TimestampPattern)) = 2

\* C18: for a duration cell whose sortable attribute does not yield exactly
\* two timestamps, extract_dates_from_duration_cell returns what the
\* patterns of the visible text give.
C18_TextFallback ==
    (dpc \in {"validate", "validated", "revalidated"} /\ ~YieldsTwoTimestamps) =>
        cell_dates = DatesFromCellText(duration_cell.text)

(***************************************************************************)
(* Claims about the quantity parser.                                       *)
(***************************************************************************)
\* the text without its leading multiplier marker
AfterMarker(text) ==
    IF text # <<>> /\ Head(text) \in {"x", "X", Times} THEN Tail(text) ELSE text

\* an optional leading marker, then digits and thousands separators, with a
\* digit among them
IsMarkedQuantity(text) ==
    /\ text # None
    /\ \A i \in 1..Len(AfterMarker(text)) : AfterMarker(text)[i] \in Digit \cup {","}
    /\ \E i \in 1..Len(AfterMarker(text)) : AfterMarker(text)[i] \in Digit

\* the text holds no digit at all
HasNoInteger(text) == text = None \/ \A i \in 1..Len(text) : text[i] \notin Digit

\* C21: parse_quantity returns the integer that the digits of a quantity
\* text denote when the text is an optional leading "x" or multiplication
\* sign, digits and thousands separators, and 1 for an empty text and for a
\* text without a parseable integer.
C21_QuantityDenoted ==
    qpc = "done" =>
        /\ IsMarkedQuantity(quantity_text) =>
               quantity = NumVal(SelectSeq(quantity_text, LAMBDA c : c \in Digit))
        /\ HasNoInteger(quantity_text) => quantity = 1

(***************************************************************************)
(* Claims about the range splitter.                                        *)
(***************************************************************************)
\* C24: for two textual dates joined by an en-dash,
\* extract_dates_from_string returns the first date as start and the second
\* as end, both as YYYY-MM-DD; the separators are tried in their declared
\* order, so two dates joined by " to " are split there and not at a hyphen.
C24_RangeSplit ==
    gpc = "done" =>
        \A x, y \in InputDates :
            /\ date_range_str = RangeText(LongDateText(x), <<" ", EnDash, " ">>, LongDateText(y)) =>
                   range_dates = [start_date |-> DateText(x, "-"), end_date |-> DateText(y, "-")]
            /\ date_range_str = RangeText(DateText(x, "-"), <<" ", "t", "o", " ">>, DateText(y, "-")) =>
                   range_dates = [start_date |-> DateText(x, "-"), end_date |-> DateText(y, "-")]

(***************************************************************************)
(* Claims about the dates of the infobox.                                  *)
(***************************************************************************)
\* C23: extract_dates_from_infobox does not raise, whatever the rows of the
\* infobox hold, and returns a mapping whose start_date and end_date are
\* dates found in the infobox or the empty string.
C23_InfoboxNeverRaises ==
    ipc = "done" =>
        /\ ~infobox_raised
        /\ \A field \in {infobox_dates.start_date, infobox_dates.end_date} :
               field = <<>> \/ field \in {found_dates[i] : i \in 1..Len(found_dates)}

\* the text holds one date-time and nothing else that looks like a date
IsOneDateTime(text) ==
    \E x \in InputDates, h \in InputHours, sep \in {"/", "-"} :
        LowerStr(text) \in {LowerStr(TimestampText(x, h, sep)),
                            LowerStr(<<"D", "u", "r", "a", "t", "i", "o", "n", " ">>
                                         \o TimestampText(x, h, sep))}

\* C26: extract_dates_from_text returns one entry for a text that holds
\* exactly one date-time, so the caller does not fill both the start and
\* the end date from it.
C26_OneEntryPerOccurrence ==
    (ipc = "done" /\ IsOneDateTime(date_text)) =>
        /\ Len(found_dates) = 1
        /\ infobox_dates.start_date = <<>> \/ infobox_dates.end_date = <<>>

(***************************************************************************)
(* Claims about the list-output reward extractor (genshin_fixed.py).       *)
(***************************************************************************)
\* C28: on a fetched detail page the list-output reward extractor takes the
\* items after the rewards header when the span id, the header id or the
\* header text finds one, and the items of the whole page when none does:
\* a page with reward items and no rewards header gives a non-empty list.
C28_WholePageSearched ==
    (rpc = "done" /\ scraper = "genshin_fixed" /\ page.fetched) =>
        /\ RewardsHeaderFound(page) => rewards = RewardStringsOf(page.after, {}, <<>>)
        /\ (~RewardsHeaderFound(page) /\ page.elsewhere # <<>>) => rewards # <<>>

(***************************************************************************)
(* Claims about the event display and the deadline check of the bot.       *)
(***************************************************************************)
\* the handlers that show the events of a game
ShowHandlers == {"show_events", "show_genshin_events", "show_waves_events"}

\* the end date of a record as the sort reads it; ok is FALSE when the
\* record has none or it cannot be parsed
EndDateOf(event) ==
    IF DictHas(event.items, Key.end_date)
    THEN ParserParse(StrOf(DictGet(event.items, Key.end_date)))
    ELSE ValueError

\* a record may stand before another in the sorted list
MayPrecede(first_end, second_end) ==
    /\ first_end.ok \/ ~second_end.ok
    /\ (first_end.ok /\ second_end.ok) => ~DtLess(second_end, first_end)

\* C22: in the list get_formatted_events returned, the records are in
\* ascending order of end date and every record whose end date cannot be
\* parsed comes after every record whose end date can be parsed (stated on
\* neighbours, which is the same as on all pairs since the order is total).
C22_SortedByEndDate ==
    \A i \in 1..(Len(formatted_events) - 1) :
        MayPrecede(EndDateOf(formatted_events[i]), EndDateOf(formatted_events[i + 1]))

\* C25: a handler that shows the events never raises to its caller: on
\* every snapshot it completes and sends the events or a message that there
\* are none.
C25_DisplayNeverRaises ==
    last_handler \in ShowHandlers => (~handler_raised /\ sent # <<>>)

\* the fields of the embeds of the messages, in the order sent
SentFields(messages) == Concat([i \in 1..Len(messages) |-> messages[i].embed.fields])

\* the fields are those of the events, one for each, in their order
OneFieldEach(fields, shown) ==
    /\ Len(fields) = Len(shown)
    /\ \A i \in 1..Len(shown) :
           \E event_name \in {FStr(DictGet(shown[i].items, Key.name))} :
               fields[i].name \in {event_name,
                                   WarningSign \o <<" ">> \o event_name \o <<" ">> \o WarningSign}

IsDue(days_left) == days_left.known /\ days_left.days <= ALERT_DAYS_THRESHOLD

\* the days that remain of a record of the snapshot of a game
DaysLeftOf(event, game) ==
    IF game = "waves" THEN WavesDaysLeft(event, current_date)
    ELSE get_days_remaining(IF DictHas(event.items, Key.end_date)
                            THEN StrOf(DictGet(event.items, Key.end_date)) ELSE None,
                            current_date)

\* a message sent is an alert for the event of the name
Alerted(game, event_name) ==
    \E i \in 1..Len(sent) :
        \/ sent[i].embed.title = AlertTitle(event_name)
        \/ \E k \in 1..Len(sent[i].embed.fields) :
               sent[i].embed.fields[k].name = AlertFieldName(game, event_name)

\* no alert is sent for a record of the snapshot that is not due
OnlyDueAlerted(snapshot, game) ==
    \A i \in 1..Len(snapshot) :
        (DictHas(snapshot[i].items, Key.name) /\ ~IsDue(DaysLeftOf(snapshot[i], game)))
            => ~Alerted(game, FStr(DictGet(snapshot[i].items, Key.name)))

\* a run of the deadline check sends nothing while no channel is set, and
\* alerts for due records only
ChecksAlertDueOnly ==
    last_handler = "check_deadlines" =>
        /\ NOTIFICATION_CHANNEL_ID = 0 => sent = <<>>
        /\ OnlyDueAlerted(genshin_snapshot, "genshin")
        /\ OnlyDueAlerted(waves_snapshot, "waves")
        /\ ((\A i \in 1..Len(genshin_snapshot) : ~IsDue(DaysLeftOf(genshin_snapshot[i], "genshin")))
            /\ (\A i \in 1..Len(waves_snapshot) : ~IsDue(DaysLeftOf(waves_snapshot[i], "waves"))))
               => sent = <<>>

\* C30: the deadline check sends nothing until set_alert_channel has set
\* the notification channel, which no other handler sets; a run sends an
\* alert for an event only if the days that remain to its end are known and
\* at most ALERT_DAYS_THRESHOLD, whatever the order of set_alert_channel,
\* set_alert_role and the runs of the check.
C30_AlertsOnlyWhenDue ==
    /\ [](ChecksAlertDueOnly)
    /\ [][NOTIFICATION_CHANNEL_ID' # NOTIFICATION_CHANNEL_ID
              => last_handler' = "set_alert_channel"]_vars

\* after the channel was set, a run of the check alerted for a due event
\* and for no other, over a snapshot that also holds a record whose days
\* that remain are not known
C30_Witness ==
    /\ last_handler = "check_deadlines" /\ NOTIFICATION_CHANNEL_ID # 0
    /\ ~handler_raised /\ sent # <<>>
    /\ \E i \in 1..Len(genshin_snapshot) : ~DaysLeftOf(genshin_snapshot[i], "genshin").known

====
